---------------------------- MODULE Spec2Model ----------------------------
(***************************************************************************)
(* Warp-consistency training protocol of DM_modified:                      *)
(*   - the actor GLOCALNetWarpCUnsupervisedActor (construction, one step), *)
(*   - its batch processing GLOCALNetWarpCUnsupervisedBatchPreprocessing,  *)
(*   - the triplet constructors BatchedImageTripletCreation and            *)
(*     BatchedImageTripletCreation2Flows,                                  *)
(*   - the composition engine WBipathLoss,                                 *)
(*   - the point-wise losses EPE / L1 / L1Charbonnier,                     *)
(*   - the adaptive balancing weights_self_supervised_and_unsupervised,    *)
(*   - the places where a flow field is resized, sparse_max_pool,          *)
(*   - the flow estimation entry points of PWCNetModel.                    *)
(* Each component has its own specification (SpecActor, SpecBatch,         *)
(* SpecTriplet, SpecTwoFlows, SpecWBipath, SpecLoss, SpecWholeLoss,        *)
(* SpecWeights, SpecResize, SpecPool, SpecPWC) over its own variable; the  *)
(* other variables stay at their idle value.                               *)
(*                                                                         *)
(* Numbers.  Real numbers are exact rationals <<num, den>> with den > 0.   *)
(* The guards 1e-8 and 1e-6 of the code are 1/EpsWeightsDen and            *)
(* 1/EpsNormDen.  Strings that the code inspects with `in` are sequences   *)
(* of characters.                                                          *)
(***************************************************************************)
EXTENDS Integers, Sequences, FiniteSets, TLC

VARIABLES actor, step, triplet, wb, lossSt, wt, rz, pool, pwc, tf, bproc, lc

vars == <<actor, step, triplet, wb, lossSt, wt, rz, pool, pwc, tf, bproc, lc>>

(***************************************************************************)
(* Bounds of the model.                                                    *)
(***************************************************************************)
MaxLoss == 2
MaxWeight == 2
MaxIter == 1
MaxPlot == 1
MaxDim == 2
MaxOut == 2
MaxBatch == 2
MaxPix == 2
MaxLevels == 2
\* largest side of a pooled map
MaxMap == 4

(***************************************************************************)
(* Generic helpers.                                                        *)
(***************************************************************************)
Abs(x) == IF x < 0 THEN -x ELSE x

Min(a, b) == IF a < b THEN a ELSE b

Max(a, b) == IF a < b THEN b ELSE a

\* Python dict: a function over the set of its keys.
EmptyDict == [k \in {} |-> 0]

DictPut(d, k, v) == [x \in (DOMAIN d) \cup {k} |-> IF x = k THEN v ELSE d[x]]

HasKey(d, k) == k \in DOMAIN d

\* Python `sub in s` on strings: s holds sub as a contiguous run of characters.
StrContains(sub, s) ==
    \E i \in 0..(Len(s) - Len(sub)) : SubSeq(s, i + 1, i + Len(sub)) = sub

\* A 0-d tensor: its value and whether it is attached to the autograd graph.
Tensor(v, g) == [kind |-> "tensor", val |-> v, grad |-> g]

\* A plain Python float (it has neither .detach() nor .item()).
PyFloat(v) == [kind |-> "float", val |-> v, grad |-> FALSE]

IsTensor(t) == t.kind = "tensor"

\* tensor.detach(): same value, cut from the graph.
Detach(t) == [kind |-> "tensor", val |-> t.val, grad |-> FALSE]

\* tensor.item(): the Python number held by the tensor.
Item(t) == t.val

\* A Python pair (a, b), indexed 0 and 1.
Pair(a, b) == [i \in {0, 1} |-> IF i = 0 THEN a ELSE b]

RECURSIVE GCD(_, _)
GCD(a, b) == IF b = 0 THEN a ELSE GCD(b, a % b)

\* The rational n / d (d > 0) in lowest terms.
Rat(n, d) == LET g == GCD(Abs(n), d) IN <<n \div g, d \div g>>

\* q * (a / b), a and b positive integers: float(a) / float(b) as a factor.
RatScale(q, a, b) == Rat(q[1] * a, q[2] * b)

\* Python's seq[start:stop] on a dimension of length len: the kept range
\* [lo, hi) after the negative indices are taken from the end and both are
\* clamped to 0..len.
SliceIndex(len, i) == IF i < 0 THEN Max(0, i + len) ELSE Min(i, len)

PySlice(len, start, stop) ==
    LET lo == SliceIndex(len, start)
        hi == SliceIndex(len, stop)
    IN  [lo |-> lo, hi |-> Max(lo, hi)]

SliceLen(sl) == sl.hi - sl.lo

(***************************************************************************)
(* Loss names.                                                             *)
(***************************************************************************)
WARP_SUPERVISION ==
    <<"w","a","r","p","_","s","u","p","e","r","v","i","s","i","o","n">>

W_BIPATH == <<"w","_","b","i","p","a","t","h">>

WARP_SUPERVISION_AND_W_BIPATH ==
    WARP_SUPERVISION \o <<"_","a","n","d","_">> \o W_BIPATH

RecognizedNames == {WARP_SUPERVISION, W_BIPATH, WARP_SUPERVISION_AND_W_BIPATH}

\* Names a configuration file may hold: the three documented ones, names that
\* only contain one of them, and names that contain neither.
LossNames ==
    RecognizedNames \cup
    { W_BIPATH \o <<"_","v","2">>,
      <<"m","y","_">> \o WARP_SUPERVISION,
      W_BIPATH \o <<"_","a","n","d","_">> \o WARP_SUPERVISION,
      <<"e","p","e">>,
      <<>> }

(***************************************************************************)
(* weights_self_supervised_and_unsupervised                                *)
(***************************************************************************)
\* 1e-8 = 1 / EpsWeightsDen
EpsWeightsDen == 100000000

LossValues == 0..MaxLoss

WeightValues == 1..MaxWeight

\* loss_weight of the actor: the configured entries over the defaults.
LossWeights ==
    [warp_supervision : WeightValues, w_bipath : WeightValues,
     w_bipath_constant : WeightValues, warp_supervision_constant : WeightValues]

\* loss_weight_default of the actor, and one configured override of it.
LossWeightDefault ==
    [warp_supervision |-> 1, w_bipath |-> 1,
     w_bipath_constant |-> 1, warp_supervision_constant |-> 1]

ActorLossWeights ==
    {LossWeightDefault,
     [warp_supervision |-> MaxWeight, w_bipath |-> 1,
      w_bipath_constant |-> 1, warp_supervision_constant |-> MaxWeight]}

One == <<1, 1>>

\* A loss value is a sum of weighted terms l * f, l a number and f a rational:
\* a sequence of the pairs, the products of the numerators are not formed.
Term(l, f) == [l |-> l, f |-> f]

\* The value of an unweighted loss l, and back.
Plain(l) == <<Term(l, One)>>

Num(t) == t.val[1].l

\* AdaptiveFactors without the configured ratio of the two weights.
AdaptiveFactorsNoRatio(L_supervised, L_unsupervised, loss_weight) ==
    IF L_unsupervised > L_supervised
    THEN [u_l_w |-> One,
          s_l_w |-> <<L_unsupervised * EpsWeightsDen, L_supervised * EpsWeightsDen + 1>>]
    ELSE [u_l_w |-> <<L_supervised * EpsWeightsDen, L_unsupervised * EpsWeightsDen + 1>>,
          s_l_w |-> One]

\* AdaptiveFactors with the factor 1 given to the term with the smaller loss.
AdaptiveFactorsSwapped(L_supervised, L_unsupervised, loss_weight) ==
    LET ws == loss_weight.warp_supervision
        wbp == loss_weight.w_bipath
    IN  IF L_unsupervised > L_supervised
        THEN [u_l_w |-> <<L_supervised * EpsWeightsDen * wbp,
                          (L_unsupervised * EpsWeightsDen + 1) * ws>>,
              s_l_w |-> One]
        ELSE [u_l_w |-> One,
              s_l_w |-> <<L_unsupervised * EpsWeightsDen * ws,
                          (L_supervised * EpsWeightsDen + 1) * wbp>>]

\* The two applied scale factors [u_l_w, s_l_w] of the adaptive branch.
AdaptiveFactors(L_supervised, L_unsupervised, loss_weight) ==
    LET ws == loss_weight.warp_supervision
        wbp == loss_weight.w_bipath
    IN  IF L_unsupervised > L_supervised
        THEN [u_l_w |-> One,
              s_l_w |-> <<L_unsupervised * EpsWeightsDen * ws,
                          (L_supervised * EpsWeightsDen + 1) * wbp>>]
        ELSE [u_l_w |-> <<L_supervised * EpsWeightsDen * wbp,
                          (L_unsupervised * EpsWeightsDen + 1) * ws>>,
              s_l_w |-> One]

\* The scale factors the call applies to (loss_un, loss_su).
AppliedFactors(loss_su, loss_un, loss_weight, apply_constant_weights) ==
    IF ~apply_constant_weights
    THEN AdaptiveFactors(Num(Detach(loss_su)), Num(Detach(loss_un)), loss_weight)
    ELSE [u_l_w |-> <<loss_weight.w_bipath_constant, 1>>,
          s_l_w |-> <<loss_weight.warp_supervision_constant, 1>>]

\* Returns [loss, stats]; loss is the tensor loss_un * u_l_w + loss_su * s_l_w,
\* its value the pair of its two terms.
WeightsSelfSupervisedAndUnsupervised(loss_su, loss_un, stats, loss_weight, apply_constant_weights) ==
    LET f == AppliedFactors(loss_su, loss_un, loss_weight, apply_constant_weights)
        t_un == Tensor(<<Term(Num(loss_un), f.u_l_w)>>, loss_un.grad)
        t_su == Tensor(<<Term(Num(loss_su), f.s_l_w)>>, loss_su.grad)
        loss == Tensor(t_un.val \o t_su.val, t_un.grad \/ t_su.grad)
        s1 == DictPut(stats, "Loss_w_bipath/total", Item(t_un))
        s2 == DictPut(s1, "Loss_warp_sup/total", Item(t_su))
        s3 == DictPut(s2, "Loss/total", Item(loss))
    IN  [loss |-> loss, stats |-> s3]

(***************************************************************************)
(* Idle values of the component variables.                                 *)
(***************************************************************************)
ActorNone == [state |-> "none"]

StepIdle == [pc |-> "idle"]

TripletIdle == [pc |-> "idle"]

WBIdle == [pc |-> "idle"]

LossIdle == [pc |-> "idle"]

WeightsIdle == [pc |-> "idle"]

ResizeIdle == [pc |-> "idle"]

PoolIdle == [pc |-> "idle"]

PWCIdle == [pc |-> "idle"]

TwoFlowsIdle == [pc |-> "idle"]

BatchIdle == [pc |-> "idle"]

WholeLossIdle == [pc |-> "idle"]

(***************************************************************************)
(* SpecWeights: calls of weights_self_supervised_and_unsupervised on two   *)
(* scalar losses of the objective.                                         *)
(***************************************************************************)
InitWeights ==
    /\ actor = ActorNone
    /\ lc = WholeLossIdle
    /\ bproc = BatchIdle
    /\ tf = TwoFlowsIdle
    /\ pwc = PWCIdle
    /\ pool = PoolIdle
    /\ rz = ResizeIdle
    /\ step = StepIdle
    /\ triplet = TripletIdle
    /\ wb = WBIdle
    /\ lossSt = LossIdle
    /\ wt \in [pc : {"called"},
               loss_su : {Tensor(Plain(l), TRUE) : l \in LossValues},
               loss_un : {Tensor(Plain(l), TRUE) : l \in LossValues},
               loss_weight : LossWeights,
               apply_constant_weights : BOOLEAN]

WeightsCall ==
    /\ wt.pc = "called"
    /\ wt' = [pc |-> "returned",
              loss_su |-> wt.loss_su, loss_un |-> wt.loss_un,
              loss_weight |-> wt.loss_weight,
              apply_constant_weights |-> wt.apply_constant_weights,
              factors |-> AppliedFactors(wt.loss_su, wt.loss_un, wt.loss_weight,
                                         wt.apply_constant_weights),
              result |-> WeightsSelfSupervisedAndUnsupervised(
                             wt.loss_su, wt.loss_un, EmptyDict, wt.loss_weight,
                             wt.apply_constant_weights)]
    /\ UNCHANGED <<actor, step, triplet, wb, lossSt, rz, pool, pwc, tf, bproc, lc>>

NextWeights == WeightsCall

SpecWeights == InitWeights /\ [][NextWeights]_vars

(***************************************************************************)
(* GLOCALNetWarpCUnsupervisedActor                                         *)
(***************************************************************************)

\* The batch-processing objects given to the actor: the options of
\* GLOCALNetWarpCUnsupervisedBatchPreprocessing.__init__ that select the mask,
\* and whether its triplet creator was built with compute_mask_zero_borders.
\* One configuration per branch of the mask selection, and the training
\* settings' one (zero-border mask computed and applied).
BatchProcessingConfigs ==
    { [mask_strategy |-> "none", apply_mask_zero_borders |-> TRUE,
       apply_mask |-> FALSE, compute_mask_zero_borders |-> TRUE],
      [mask_strategy |-> "none", apply_mask_zero_borders |-> TRUE,
       apply_mask |-> FALSE, compute_mask_zero_borders |-> FALSE],
      [mask_strategy |-> "center_window", apply_mask_zero_borders |-> TRUE,
       apply_mask |-> FALSE, compute_mask_zero_borders |-> FALSE],
      [mask_strategy |-> "none", apply_mask_zero_borders |-> FALSE,
       apply_mask |-> TRUE, compute_mask_zero_borders |-> FALSE],
      [mask_strategy |-> "none", apply_mask_zero_borders |-> FALSE,
       apply_mask |-> FALSE, compute_mask_zero_borders |-> FALSE] }

\* __init__: the WBipathLoss module is built when the name holds 'w_bipath';
\* the constructor raises when the name holds neither 'w_bipath' nor
\* 'warp_supervision'.
ActorInit(name_of_loss, loss_weight, nbr_images_to_plot, apply_constant_flow_weights, batch_processing) ==
    IF StrContains(W_BIPATH, name_of_loss)
    THEN [state |-> "constructed", name_of_loss |-> name_of_loss,
          loss_weight |-> loss_weight,
          apply_constant_flow_weights |-> apply_constant_flow_weights,
          nbr_images_to_plot |-> nbr_images_to_plot,
          batch_processing |-> batch_processing,
          has_unsupervised_objective |-> TRUE]
    ELSE IF ~StrContains(WARP_SUPERVISION, name_of_loss)
    THEN [state |-> "raised", name_of_loss |-> name_of_loss,
          error |-> "ValueError"]
    ELSE [state |-> "constructed", name_of_loss |-> name_of_loss,
          loss_weight |-> loss_weight,
          apply_constant_flow_weights |-> apply_constant_flow_weights,
          nbr_images_to_plot |-> nbr_images_to_plot,
          batch_processing |-> batch_processing,
          has_unsupervised_objective |-> FALSE]

Construct ==
    /\ actor.state = "none"
    /\ \E name \in LossNames, lw \in ActorLossWeights, nbr \in 0..MaxPlot,
          const \in BOOLEAN, bp \in BatchProcessingConfigs :
          actor' = ActorInit(name, lw, nbr, const, bp)
    /\ UNCHANGED <<step, triplet, wb, lossSt, wt, rz, pool, pwc, tf, bproc, lc>>

\* A training or validation step starts on a constructed actor: the caller's
\* mini-batch and flag, and the values the objective will return on this batch.
StepBegin ==
    /\ actor.state = "constructed"
    /\ step.pc = "idle"
    /\ \E training \in BOOLEAN, iter \in 0..MaxIter, has_gt \in BOOLEAN,
          has_pyramid \in BOOLEAN, objSS \in LossValues, objUn \in LossValues :
          step' = [pc |-> "batch", training |-> training, iter |-> iter,
                   has_gt |-> has_gt, has_pyramid |-> has_pyramid,
                   objSS |-> objSS, objUn |-> objUn,
                   has_mask_zero_borders |-> FALSE, mask |-> "unset",
                   order |-> <<>>, npyr |-> 0, nfwd |-> 0,
                   defined |-> {}, direct_is_none |-> TRUE,
                   sup_evals |-> 0, comp_evals |-> 0,
                   loss_ss |-> PyFloat(Plain(0)), un_loss |-> PyFloat(Plain(0)),
                   stats_ss |-> EmptyDict, un_stats |-> EmptyDict,
                   output_un |-> "unset",
                   uncomputed_read |-> "none", plotted |-> {},
                   loss |-> PyFloat(Plain(0)), stats |-> EmptyDict, error |-> "none"]
    /\ UNCHANGED <<actor, triplet, wb, lossSt, wt, rz, pool, pwc, tf, bproc, lc>>

\* The mask selection of GLOCALNetWarpCUnsupervisedBatchPreprocessing.__call__
\* on a mini-batch that holds 'mask_zero_borders' or not: the mask strategy
\* comes first, then the zero-border mask (ValueError when the field is
\* missing), then the correspondence mask; with no option set mask stays None
\* and mask.bool() raises.
SelectMask(bp, has_mask_zero_borders) ==
    IF bp.mask_strategy # "none"
    THEN [error |-> "none", mask |-> "get_mask"]
    ELSE IF bp.apply_mask_zero_borders
    THEN IF ~has_mask_zero_borders
         THEN [error |-> "ValueError", mask |-> "unset"]
         ELSE [error |-> "none", mask |-> "mask_zero_borders"]
    ELSE IF bp.apply_mask
    THEN [error |-> "none", mask |-> "correspondence_mask"]
    ELSE [error |-> "AttributeError", mask |-> "unset"]

\* BatchProcessingResult without the check of the 'mask_zero_borders' field.
BatchProcessingResultUnchecked(a, s) ==
    [s EXCEPT !.pc = "pyramid", !.order = Append(@, "batch"),
              !.has_mask_zero_borders = a.batch_processing.compute_mask_zero_borders,
              !.mask = "mask_zero_borders"]

\* mini_batch = self.batch_processing(...); b, _, h, w = flow_map.shape
\* The triplet creator runs first and writes 'mask_zero_borders' when it was
\* built with compute_mask_zero_borders; then the mask is selected.
BatchProcessingResult(a, s) ==
    LET bp == a.batch_processing
        has == bp.compute_mask_zero_borders
        sel == SelectMask(bp, has)
    IN  IF sel.error # "none"
        THEN [s EXCEPT !.pc = "raised", !.error = sel.error,
                       !.has_mask_zero_borders = has]
        ELSE [s EXCEPT !.pc = "pyramid", !.order = Append(@, "batch"),
                       !.has_mask_zero_borders = has, !.mask = sel.mask]

BatchProcessing ==
    /\ step.pc = "batch"
    /\ step' = BatchProcessingResult(actor, step)
    /\ UNCHANGED <<actor, triplet, wb, lossSt, wt, rz, pool, pwc, tf, bproc, lc>>

\* ExtractPyramidsResult with the pyramid of one image only.
ExtractPyramidsResultOneImage(a, s) ==
    [s EXCEPT !.pc = "flows", !.order = Append(@, "pyramid"),
              !.npyr = IF s.has_pyramid THEN 1 ELSE 0]

\* if hasattr(net, 'pyramid'): one pyramid per image of the triplet
ExtractPyramidsResult(a, s) ==
    [s EXCEPT !.pc = "flows", !.order = Append(@, "pyramid"),
              !.npyr = IF s.has_pyramid THEN 3 ELSE 0]

ExtractPyramids ==
    /\ step.pc = "pyramid"
    /\ step' = ExtractPyramidsResult(actor, step)
    /\ UNCHANGED <<actor, triplet, wb, lossSt, wt, rz, pool, pwc, tf, bproc, lc>>

\* target->source and the direct target_prime->target estimates
ComputeFlowsResult(a, s) ==
    LET t2s == ~s.training \/ s.iter < a.nbr_images_to_plot
        direct == \/ ~s.training
                  \/ StrContains(WARP_SUPERVISION, a.name_of_loss)
                  \/ s.iter < a.nbr_images_to_plot
    IN  [s EXCEPT !.pc = "warp_sup", !.order = Append(@, "flows"),
                  !.nfwd = @ + (IF t2s THEN 1 ELSE 0) + (IF direct THEN 1 ELSE 0),
                  !.defined = @ \cup (IF t2s THEN {"estimated_flow_target_to_source"} ELSE {})
                                \cup {"estimated_flow_target_prime_to_target_directly"},
                  !.direct_is_none = ~direct]

ComputeFlows ==
    /\ step.pc = "flows"
    /\ step' = ComputeFlowsResult(actor, step)
    /\ UNCHANGED <<actor, triplet, wb, lossSt, wt, rz, pool, pwc, tf, bproc, lc>>

\* if 'warp_supervision' in self.name_of_loss: the objective on the direct estimate
LossWarpSupervisionResult(a, s) ==
    IF StrContains(WARP_SUPERVISION, a.name_of_loss)
    THEN [s EXCEPT !.pc = "w_bipath", !.order = Append(@, "loss_warp_sup"),
                   !.loss_ss = Tensor(Plain(s.objSS), TRUE),
                   !.sup_evals = @ + 1,
                   !.output_un = "direct",
                   !.defined = @ \cup {"output_un"}]
    ELSE [s EXCEPT !.pc = "w_bipath"]

LossWarpSupervision ==
    /\ step.pc = "warp_sup"
    /\ step' = LossWarpSupervisionResult(actor, step)
    /\ UNCHANGED <<actor, triplet, wb, lossSt, wt, rz, pool, pwc, tf, bproc, lc>>

\* if 'w_bipath' in self.name_of_loss: two more estimates and the W-bipath module
LossWBipathResult(a, s) ==
    IF StrContains(W_BIPATH, a.name_of_loss)
    THEN [s EXCEPT !.pc = "select", !.order = Append(@, "loss_w_bipath"),
                   !.nfwd = @ + 2,
                   !.un_loss = Tensor(Plain(s.objUn), TRUE),
                   !.comp_evals = @ + 1,
                   !.output_un = "composition",
                   !.defined = @ \cup {"estimated_flow_target_prime_to_source",
                                       "estimated_flow_source_to_target",
                                       "output_un"}]
    ELSE [s EXCEPT !.pc = "select"]

LossWBipath ==
    /\ step.pc = "w_bipath"
    /\ step' = LossWBipathResult(actor, step)
    /\ UNCHANGED <<actor, triplet, wb, lossSt, wt, rz, pool, pwc, tf, bproc, lc>>

\* The branch of SelectLossResult taken with `in` instead of `==`.
SelectLossResultSubstring(a, s) ==
    IF StrContains(WARP_SUPERVISION, a.name_of_loss)
    THEN [s EXCEPT !.pc = "validation", !.order = Append(@, "select"),
                   !.stats = DictPut(s.stats_ss, "Loss/total", Item(s.loss_ss)),
                   !.loss = s.loss_ss]
    ELSE [s EXCEPT !.pc = "validation", !.order = Append(@, "select"),
                   !.loss = s.un_loss,
                   !.stats = DictPut(s.un_stats, "Loss/total", Item(s.un_loss))]

\* The three-way branch on name_of_loss (== on the whole name).
SelectLossResult(a, s) ==
    IF a.name_of_loss = WARP_SUPERVISION
    THEN [s EXCEPT !.pc = "validation", !.order = Append(@, "select"),
                   !.stats = DictPut(s.stats_ss, "Loss/total", Item(s.loss_ss)),
                   !.loss = s.loss_ss]
    ELSE IF a.name_of_loss = W_BIPATH
    THEN [s EXCEPT !.pc = "validation", !.order = Append(@, "select"),
                   !.loss = s.un_loss,
                   !.stats = DictPut(s.un_stats, "Loss/total", Item(s.un_loss))]
    ELSE IF s.direct_is_none
    THEN \* the objective is called on None
         [s EXCEPT !.pc = "raised", !.error = "TypeError",
                   !.uncomputed_read = "estimated_flow_target_prime_to_target_directly"]
    ELSE IF ~IsTensor(s.un_loss)
    THEN \* un_loss is still the float 0.0: no .detach() / .item()
         [s EXCEPT !.pc = "raised", !.error = "AttributeError",
                   !.sup_evals = @ + 1, !.uncomputed_read = "un_loss"]
    ELSE LET ss_loss == Tensor(Plain(s.objSS), TRUE)
             r == WeightsSelfSupervisedAndUnsupervised(
                      ss_loss, s.un_loss, EmptyDict, a.loss_weight,
                      a.apply_constant_flow_weights)
         IN  [s EXCEPT !.pc = "validation", !.order = Append(@, "select"),
                       !.sup_evals = @ + 1,
                       !.loss = r.loss, !.stats = r.stats]

SelectLoss ==
    /\ step.pc = "select"
    /\ step' = SelectLossResult(actor, step)
    /\ UNCHANGED <<actor, triplet, wb, lossSt, wt, rz, pool, pwc, tf, bproc, lc>>

\* The number of elements of the 'flow_estimates' list the network returns
\* (one per resolution, the finest last); the composition has as many.
NbrEstimates == MaxLevels

\* keys of the validation statistics
KeyT2S(index_reso) == "EPE_target_to_source_reso_" \o ToString(index_reso) \o "/EPE"

KeyPCK(thresh, index_reso) ==
    "PCK_" \o thresh \o "_target_to_source_reso_" \o ToString(index_reso) \o "/EPE"

KeyDirect(index_reso) ==
    "EPE_target_prime_to_target_reso_direct_" \o ToString(index_reso) \o "/EPE"

KeyComposition(index_reso) ==
    "EPE_target_prime_to_target_reso_composition_" \o ToString(index_reso) \o "/EPE"

\* the thresholds of the PCK, as they are formatted in the keys
\* (semantic_evaluation=False)
Thresholds == <<"1.0", "3.0", "5.0">>

\* A statistic: the metric, the list it was computed on, and the element
\* list[-(index_reso + 1)] counted from the start of the list (1 = first).
Metric(metric, estimate, index_reso) ==
    [metric |-> metric, estimate |-> estimate, element |-> NbrEstimates - index_reso]

\* The statistics of lines 289-302 and 304-314 (without 'best_value'), for an
\* output_un whose composition entry holds the list named by held.
ValidationEntries(has_gt, held) ==
    LET resos == 0..(NbrEstimates - 1)
        t2s == IF has_gt
               THEN { <<KeyT2S(i), Metric("EPE", "estimated_flow_target_to_source", i)>> :
                        i \in resos }
                    \cup { <<KeyPCK(Thresholds[j], i),
                             Metric("PCK_" \o Thresholds[j],
                                    "estimated_flow_target_to_source", i)>> :
                             i \in resos, j \in 1..3 }
               ELSE {}
        direct == { <<KeyDirect(i),
                      Metric("EPE", "estimated_flow_target_prime_to_target_directly", i)>> :
                      i \in resos }
        composed == { <<KeyComposition(i), Metric("EPE", held, i)>> : i \in resos }
    IN  t2s \cup direct \cup composed

\* what output_un['estimated_flow_target_prime_to_target_through_composition'] is
HeldByOutputUn(s) ==
    IF s.output_un = "direct"
    THEN "estimated_flow_target_prime_to_target_directly"
    ELSE "estimated_flow_target_prime_to_target_through_composition"

\* stats after the validation branch
ValidationStats(stats, has_gt, held) ==
    LET entries == ValidationEntries(has_gt, held)
        keys == { e[1] : e \in entries }
        with == [k \in (DOMAIN stats) \cup keys |->
                    IF k \in keys
                    THEN (CHOOSE e \in entries : e[1] = k)[2]
                    ELSE stats[k]]
    IN  DictPut(with, "best_value",
                IF has_gt THEN with[KeyT2S(0)] ELSE with[KeyComposition(0)])

\* ValidationResult with the statistics written in training steps too.
ValidationResultAlways(a, s) ==
    [s EXCEPT !.pc = "plot", !.order = Append(@, "validation"),
              !.stats = ValidationStats(s.stats, s.has_gt, HeldByOutputUn(s))]

\* if not training: the validation statistics (a name that is read before it
\* was assigned, or a None that is indexed, ends the step)
ValidationResult(a, s) ==
    IF s.training
    THEN [s EXCEPT !.pc = "plot"]
    ELSE IF s.has_gt /\ "estimated_flow_target_to_source" \notin s.defined
    THEN [s EXCEPT !.pc = "raised", !.error = "UnboundLocalError",
                   !.uncomputed_read = "estimated_flow_target_to_source"]
    ELSE IF s.direct_is_none
    THEN [s EXCEPT !.pc = "raised", !.error = "TypeError",
                   !.uncomputed_read = "estimated_flow_target_prime_to_target_directly"]
    ELSE IF "output_un" \notin s.defined
    THEN [s EXCEPT !.pc = "raised", !.error = "UnboundLocalError",
                   !.uncomputed_read = "output_un"]
    ELSE [s EXCEPT !.pc = "plot", !.order = Append(@, "validation"),
                   !.stats = ValidationStats(s.stats, s.has_gt, HeldByOutputUn(s))]

Validation ==
    /\ step.pc = "validation"
    /\ step' = ValidationResult(actor, step)
    /\ UNCHANGED <<actor, triplet, wb, lossSt, wt, rz, pool, pwc, tf, bproc, lc>>

\* the estimates plot_flows_warpc is given in each of its two calls
PlotReads(a) ==
    IF a.name_of_loss = WARP_SUPERVISION
    THEN {"estimated_flow_target_prime_to_target_directly"}
    ELSE {"estimated_flow_target_to_source", "estimated_flow_target_prime_to_source",
          "output_un", "estimated_flow_target_prime_to_target_directly",
          "estimated_flow_source_to_target"}

\* if iter < self.nbr_images_to_plot: plot_flows_warpc on the last elements
PlotResult(a, s) ==
    IF ~(s.iter < a.nbr_images_to_plot)
    THEN [s EXCEPT !.pc = "done"]
    ELSE IF PlotReads(a) \ s.defined # {}
    THEN [s EXCEPT !.pc = "raised", !.error = "UnboundLocalError",
                   !.uncomputed_read = CHOOSE n \in PlotReads(a) \ s.defined : TRUE]
    ELSE IF s.direct_is_none
    THEN [s EXCEPT !.pc = "raised", !.error = "TypeError",
                   !.uncomputed_read = "estimated_flow_target_prime_to_target_directly"]
    ELSE IF a.name_of_loss # WARP_SUPERVISION /\ s.output_un # "composition"
    THEN \* output_un['mask_training'] of a dictionary without that key
         [s EXCEPT !.pc = "raised", !.error = "KeyError",
                   !.uncomputed_read = "mask_training"]
    ELSE [s EXCEPT !.pc = "done", !.order = Append(@, "plot"),
                   !.plotted = PlotReads(a)]

Plot ==
    /\ step.pc = "plot"
    /\ step' = PlotResult(actor, step)
    /\ UNCHANGED <<actor, triplet, wb, lossSt, wt, rz, pool, pwc, tf, bproc, lc>>

\* return loss, stats (or the exception leaves the step); the next mini-batch
\* can be given to the actor.
StepReturn ==
    /\ step.pc \in {"done", "raised"}
    /\ step' = StepIdle
    /\ UNCHANGED <<actor, triplet, wb, lossSt, wt, rz, pool, pwc, tf, bproc, lc>>

InitActor ==
    /\ actor = ActorNone
    /\ lc = WholeLossIdle
    /\ bproc = BatchIdle
    /\ tf = TwoFlowsIdle
    /\ pwc = PWCIdle
    /\ pool = PoolIdle
    /\ rz = ResizeIdle
    /\ step = StepIdle
    /\ triplet = TripletIdle
    /\ wb = WBIdle
    /\ lossSt = LossIdle
    /\ wt = WeightsIdle

NextActor ==
    \/ Construct
    \/ StepBegin
    \/ BatchProcessing
    \/ ExtractPyramids
    \/ ComputeFlows
    \/ LossWarpSupervision
    \/ LossWBipath
    \/ SelectLoss
    \/ Validation
    \/ Plot
    \/ StepReturn

SpecActor == InitActor /\ [][NextActor]_vars

(***************************************************************************)
(* GLOCALNetWarpCUnsupervisedBatchPreprocessing.__call__                   *)
(*                                                                         *)
(* A tensor is its shape, a sequence of dimensions.  The call is the one   *)
(* of the actor's step, self.batch_processing(mini_batch, net=self.net,    *)
(* training=training), with mapping=False.  The mini-batch comes from the  *)
(* triplet creator when there is one (flows of layout (b, 2, h, w), masks  *)
(* of the size of the flow), from the dataset otherwise.                   *)
(***************************************************************************)
TripletCreators ==
    {"None", "BatchedImageTripletCreation", "BatchedImageTripletCreation2Flows"}

\* Python's binding of the keyword arguments given to
\* __call__(self, mini_batch, net=None, training=True, *args, **kwargs) of
\* the triplet creators: a parameter not given keeps its default, a keyword
\* that names no parameter goes to kwargs.
BindTripletCall(given) ==
    [training |-> IF HasKey(given, "training") THEN given["training"] ELSE TRUE,
     kwargs |-> [k \in (DOMAIN given) \ {"mini_batch", "grid", "net", "training"} |-> given[k]]]

\* self.online_triplet_creator(mini_batch, train=training, net=net): the flag
\* the creator runs with, and the one it hands to its flow generator(s) in
\* self.synthetic_flow_generator(mini_batch=mini_batch, training=training, net=net).
OnlineTripletCreatorCall(training) ==
    LET bound == BindTripletCall(DictPut(DictPut(EmptyDict, "train", training), "net", TRUE))
    IN  [creator_training |-> bound.training,
         generator_training |-> bound.training,
         kwargs |-> DOMAIN bound.kwargs]

\* t.permute(0, 3, 1, 2): a new tensor, t itself keeps its shape
Permute0312(shape) == <<shape[1], shape[4], shape[2], shape[3]>>

\* flow_gt after lines 124-126: the result of permute is not assigned.
FlowGtAfterLayoutTest(flow_shape) ==
    LET permuted == IF flow_shape[2] # 2 THEN Permute0312(flow_shape) ELSE flow_shape
    IN  flow_shape

\* lines 141-144: a mask of another size than (h, w) is interpolated to it
MaskAtFlowSize(mask_shape, h, w) ==
    IF mask_shape[2] # h \/ mask_shape[3] # w
    THEN <<mask_shape[1], h, w>>
    ELSE mask_shape

\* The whole call on a mini-batch whose 'flow_map' has shape flow_shape and
\* whose selected mask has shape mask_shape.
BatchProcessingCall(cfg, creator, training, flow_shape, mask_shape, has_mask_zero_borders) ==
    LET call == IF creator # "None"
                THEN OnlineTripletCreatorCall(training)
                ELSE [creator_training |-> "not called",
                      generator_training |-> "not called", kwargs |-> {}]
        flow_gt == FlowGtAfterLayoutTest(flow_shape)
        h == flow_gt[3]
        w == flow_gt[4]
        sel == SelectMask(cfg, has_mask_zero_borders)
    IN  IF sel.error # "none"
        THEN [pc |-> "raised", error |-> sel.error, call |-> call]
        ELSE [pc |-> "returned", error |-> "none", call |-> call,
              mask_source |-> sel.mask,
              mini_batch |-> [flow_map |-> flow_gt,
                              mask |-> MaskAtFlowSize(mask_shape, h, w)]]

\* layouts (b, 2, h, w) and (b, h, w, 2)
FlowShapes(b) ==
    {<<b, 2, h, w>> : h \in 1..MaxDim, w \in 1..MaxDim}
        \cup {<<b, h, w, 2>> : h \in 1..MaxDim, w \in 1..MaxDim}

MaskShapes(b) == {<<b, h, w>> : h \in 1..MaxDim, w \in 1..MaxDim}

BatchCall ==
    /\ bproc.pc = "ready"
    /\ \E training \in BOOLEAN, b \in 1..MaxBatch, has \in BOOLEAN :
       \E flow_shape \in FlowShapes(b), mask_shape \in MaskShapes(b) :
          /\ bproc.creator # "None" =>
                /\ has = bproc.cfg.compute_mask_zero_borders
                /\ flow_shape[2] = 2
                /\ bproc.cfg.mask_strategy = "none" =>
                      mask_shape = <<b, flow_shape[3], flow_shape[4]>>
          /\ bproc' = [pc |-> "called", cfg |-> bproc.cfg, creator |-> bproc.creator,
                       training |-> training, flow_shape |-> flow_shape,
                       mask_shape |-> mask_shape, has_mask_zero_borders |-> has]
    /\ UNCHANGED <<actor, step, triplet, wb, lossSt, wt, rz, pool, pwc, tf, lc>>

BatchReturn ==
    /\ bproc.pc = "called"
    /\ bproc' = [cfg |-> bproc.cfg, creator |-> bproc.creator,
                 training |-> bproc.training, flow_shape |-> bproc.flow_shape,
                 mask_shape |-> bproc.mask_shape,
                 has_mask_zero_borders |-> bproc.has_mask_zero_borders] @@
                BatchProcessingCall(bproc.cfg, bproc.creator, bproc.training,
                                    bproc.flow_shape, bproc.mask_shape,
                                    bproc.has_mask_zero_borders)
    /\ UNCHANGED <<actor, step, triplet, wb, lossSt, wt, rz, pool, pwc, tf, lc>>

InitBatch ==
    /\ actor = ActorNone
    /\ lc = WholeLossIdle
    /\ step = StepIdle
    /\ triplet = TripletIdle
    /\ wb = WBIdle
    /\ lossSt = LossIdle
    /\ wt = WeightsIdle
    /\ rz = ResizeIdle
    /\ pool = PoolIdle
    /\ pwc = PWCIdle
    /\ tf = TwoFlowsIdle
    /\ bproc \in [pc : {"ready"}, cfg : BatchProcessingConfigs, creator : TripletCreators]

NextBatch ==
    \/ BatchCall
    \/ BatchReturn

SpecBatch == InitBatch /\ [][NextBatch]_vars

(***************************************************************************)
(* BatchedImageTripletCreation                                             *)
(*                                                                         *)
(* A flow field is [h, w, u, v]: its spatial size and the displacement     *)
(* (channel 0 = u, channel 1 = v) of a constant field, each a rational;    *)
(* bilinear resizing keeps a constant field constant.  An image or a mask  *)
(* is its size [h, w].  A call runs generate -> crop -> resize -> masks -> *)
(* package; each stage keeps the values that are still read afterwards.    *)
(***************************************************************************)
\* min_percent_valid_corr: the default 0.1 and a configured 0.5
MinPercents == {<<1, 10>>, <<1, 2>>}

\* crop sizes below, at and above the largest image side
CropSides == {1, MaxDim, MaxDim + 2}

OutSides == {1, MaxOut}

\* padding_mode of the constructor: the default 'zeros', or 'border'
PaddingModes == {"zeros", "border"}

TripletConfigs ==
    [crop_size : {Pair(a, b) : a \in CropSides, b \in CropSides},
     output_size : {Pair(a, b) : a \in OutSides, b \in OutSides},
     compute_mask_zero_borders : BOOLEAN,
     min_percent_valid_corr : MinPercents,
     padding_mode : PaddingModes]

\* displacements (u, v) in pixels of the fields the generator and the dataset give
FlowValues == {<<1, -1>>, <<2, 1>>}

Flow(h, w, uv, src) ==
    [h |-> h, w |-> w, u |-> Rat(uv[1], 1), v |-> Rat(uv[2], 1), src |-> src]

\* Python None
None == [src |-> "None"]

\* The size of a tensor and where it comes from, without its values.
Shape(t) == IF t = None THEN None ELSE [h |-> t.h, w |-> t.w, src |-> t.src]

Image(h, w, src) == [h |-> h, w |-> w, src |-> src]

\* warp(image, flow, padding_mode=...).byte(): an image of the same size whose
\* pixels sampled from outside the image are filled as padding_mode says.
WarpedImage(img, padding_mode) ==
    [h |-> img.h, w |-> img.w, src |-> "warp", padding_mode |-> padding_mode]

\* F.interpolate(t, (h, w)): the size changes, the values do not.
Interpolate(t, size) == [t EXCEPT !.h = size[0], !.w = size[1]]

\* flow[:, 0] *= float(wn) / float(wd);  flow[:, 1] *= float(hn) / float(hd)
ScaleChannels(f, wn, wd, hn, hd) ==
    [f EXCEPT !.u = RatScale(f.u, wn, wd), !.v = RatScale(f.v, hn, hd)]

\* t[..., y_start : y_start + ch, x_start : x_start + cw]
CropTo(t, ys, xs) == [t EXCEPT !.h = SliceLen(ys), !.w = SliceLen(xs)]

\* Resize of a flow by the triplet constructor: bilinear interpolation to
\* size_to, channel 0 times the ratio of the [1] entries (widths), channel 1
\* times the ratio of the [0] entries (heights).
ResizeFlow(f, size_to, size_from) ==
    ScaleChannels(Interpolate(f, size_to),
                  size_to[1], size_from[1], size_to[0], size_from[0])

\* A call: the images of the mini-batch, and its ground-truth flow if any.
TripletCall ==
    /\ triplet.pc \in {"ready", "returned"}
    /\ \E h \in 1..MaxDim, w \in 1..MaxDim :
       \E flow_map \in {None} \cup {Flow(h, w, t2s, "mini_batch.flow_map") : t2s \in FlowValues} :
          triplet' = [pc |-> "generate", cfg |-> triplet.cfg,
                      h |-> h, w |-> w,
                      has_flow_map |-> flow_map # None,
                      flow_gt_target_to_source |-> flow_map]
    /\ UNCHANGED <<actor, step, wb, lossSt, wt, rz, pool, pwc, tf, bproc, lc>>

\* flow_gt of the generator, brought to the size of the images.
GeneratedFlow(gen, h, w) ==
    IF gen.h # h \/ gen.w # w
    THEN ResizeFlow(gen, Pair(h, w), Pair(gen.h, gen.w))
    ELSE gen

GenerateFlow ==
    /\ triplet.pc = "generate"
    /\ \E h_f \in 1..MaxOut, w_f \in 1..MaxOut, uv \in FlowValues :
          LET gen == Flow(h_f, w_f, uv, "synthetic_flow_generator")
          IN  triplet' = [pc |-> "crop", cfg |-> triplet.cfg,
                          h |-> triplet.h, w |-> triplet.w,
                          has_flow_map |-> triplet.has_flow_map,
                          flow_gt_target_to_source |-> triplet.flow_gt_target_to_source,
                          generated |-> gen,
                          flow_gt |-> GeneratedFlow(gen, triplet.h, triplet.w)]
    /\ UNCHANGED <<actor, step, wb, lossSt, wt, rz, pool, pwc, tf, bproc, lc>>

\* x_start, y_start and the two slices of the center crop.
CropSlices(h, w, crop_size) ==
    LET x_start == (w \div 2) - (crop_size[1] \div 2)
        y_start == (h \div 2) - (crop_size[0] \div 2)
    IN  [x_start |-> x_start, y_start |-> y_start,
         ys |-> PySlice(h, y_start, y_start + crop_size[0]),
         xs |-> PySlice(w, x_start, x_start + crop_size[1])]

CenterCrop ==
    /\ triplet.pc = "crop"
    /\ LET c == CropSlices(triplet.h, triplet.w, triplet.cfg.crop_size)
       IN  triplet' = [pc |-> "resize", cfg |-> triplet.cfg,
                       h |-> triplet.h, w |-> triplet.w,
                       has_flow_map |-> triplet.has_flow_map,
                       crop |-> c,
                       image_resized |->
                           CropTo(Image(triplet.h, triplet.w, "mini_batch.image"), c.ys, c.xs),
                       flow_gt_resized |-> CropTo(triplet.flow_gt, c.ys, c.xs),
                       flow_gt_target_to_source |->
                           IF triplet.has_flow_map
                           THEN CropTo(triplet.flow_gt_target_to_source, c.ys, c.xs)
                           ELSE None]
    /\ UNCHANGED <<actor, step, wb, lossSt, wt, rz, pool, pwc, tf, bproc, lc>>

\* ResizedFlow with the channels rescaled and the interpolation left out.
ResizedFlowNotInterpolated(f, cfg) ==
    IF cfg.output_size # cfg.crop_size
    THEN ScaleChannels(f, cfg.output_size[1], cfg.crop_size[1],
                       cfg.output_size[0], cfg.crop_size[0])
    ELSE f

\* if self.output_size != self.crop_size: images to output_size (area), flows
\* to output_size (bilinear) and rescaled by output_size / crop_size.
ResizedFlow(f, cfg) ==
    IF cfg.output_size # cfg.crop_size
    THEN ResizeFlow(f, cfg.output_size, cfg.crop_size)
    ELSE f

ResizeToOutput ==
    /\ triplet.pc = "resize"
    /\ LET cfg == triplet.cfg
       IN  triplet' = [pc |-> "masks", cfg |-> cfg,
                       h |-> triplet.h, w |-> triplet.w,
                       has_flow_map |-> triplet.has_flow_map,
                       cropped |-> triplet.flow_gt_resized,
                       image_resized |->
                           IF cfg.output_size # cfg.crop_size
                           THEN Interpolate(triplet.image_resized, cfg.output_size)
                           ELSE triplet.image_resized,
                       flow_gt_resized |-> ResizedFlow(triplet.flow_gt_resized, cfg),
                       flow_gt_target_to_source |->
                           IF triplet.has_flow_map
                           THEN ResizedFlow(triplet.flow_gt_target_to_source, cfg)
                           ELSE None]
    /\ UNCHANGED <<actor, step, wb, lossSt, wt, rz, pool, pwc, tf, bproc, lc>>

\* The test of line 164 on mask_gt of shape (b, h, w) holding mask_sum ones.
TooFewValid(mask_sum, b, h, w, min_percent) ==
    mask_sum * min_percent[2] < w * h * min_percent[1]

\* Which mask becomes mask_zero_borders: mask_gt itself, or the non-zero
\* pixels of target_image_prime.
ZeroBordersSource(mask_sum, b, h, w, min_percent) ==
    IF TooFewValid(mask_sum, b, h, w, min_percent)
    THEN "mask_gt"
    ELSE "define_mask_zero_borders"

\* mask_gt = create_border_mask(flow_gt_resized), of shape (b, h, w) with
\* mask_sum valid pixels over the batch; then the choice of mask_zero_borders.
ComputeMasks ==
    /\ triplet.pc = "masks"
    /\ LET f == triplet.flow_gt_resized
       IN  \E b \in 1..MaxBatch :
           \E mask_sum \in 0..(b * f.h * f.w) :
               triplet' = [pc |-> "package", cfg |-> triplet.cfg,
                           h |-> triplet.h, w |-> triplet.w,
                           has_flow_map |-> triplet.has_flow_map,
                           image_resized |-> triplet.image_resized,
                           flow_gt_resized |-> Shape(f),
                           flow_gt_target_to_source |->
                               Shape(triplet.flow_gt_target_to_source),
                           mask_gt |-> [b |-> b, h |-> f.h, w |-> f.w, sum |-> mask_sum,
                                        src |-> "create_border_mask"],
                           mask_source |->
                               IF triplet.cfg.compute_mask_zero_borders
                               THEN ZeroBordersSource(mask_sum, b, f.h, f.w,
                                        triplet.cfg.min_percent_valid_corr)
                               ELSE "unset"]
    /\ UNCHANGED <<actor, step, wb, lossSt, wt, rz, pool, pwc, tf, bproc, lc>>

\* PackagedBatch with 'mask_zero_borders' written whatever the configuration.
PackagedBatchAlwaysZeroBorders(t) ==
    LET m0 == [k \in {"source_image", "target_image", "target_image_prime"} |->
                  IF k = "target_image_prime"
                  THEN WarpedImage(t.image_resized, t.cfg.padding_mode)
                  ELSE t.image_resized]
        m1 == DictPut(m0, "correspondence_mask", Shape(t.mask_gt))
        m2 == DictPut(m1, "flow_map", t.flow_gt_resized)
        m3 == DictPut(m2, "mask_zero_borders",
                      [h |-> t.mask_gt.h, w |-> t.mask_gt.w, src |-> t.mask_source])
    IN  IF t.has_flow_map
        THEN DictPut(DictPut(m3, "flow_map_target_to_source", t.flow_gt_target_to_source),
                     "correspondence_mask_target_to_source",
                     [h |-> t.flow_gt_target_to_source.h,
                      w |-> t.flow_gt_target_to_source.w,
                      src |-> "mini_batch.correspondence_mask"])
        ELSE m3

\* The fields written back to the mini-batch.
PackagedBatch(t) ==
    LET m0 == [k \in {"source_image", "target_image", "target_image_prime"} |->
                  IF k = "target_image_prime"
                  THEN WarpedImage(t.image_resized, t.cfg.padding_mode)
                  ELSE t.image_resized]
        m1 == DictPut(m0, "correspondence_mask", Shape(t.mask_gt))
        m2 == DictPut(m1, "flow_map", t.flow_gt_resized)
        m3 == IF t.cfg.compute_mask_zero_borders
              THEN DictPut(m2, "mask_zero_borders",
                           [h |-> t.mask_gt.h, w |-> t.mask_gt.w, src |-> t.mask_source])
              ELSE m2
        m4 == IF t.has_flow_map
              THEN DictPut(DictPut(m3, "flow_map_target_to_source", t.flow_gt_target_to_source),
                           "correspondence_mask_target_to_source",
                           [h |-> t.flow_gt_target_to_source.h,
                            w |-> t.flow_gt_target_to_source.w,
                            src |-> "mini_batch.correspondence_mask"])
              ELSE m3
    IN  m4

Package ==
    /\ triplet.pc = "package"
    /\ triplet' = [pc |-> "returned", cfg |-> triplet.cfg,
                   h |-> triplet.h, w |-> triplet.w,
                   has_flow_map |-> triplet.has_flow_map,
                   mini_batch |-> PackagedBatch(triplet)]
    /\ UNCHANGED <<actor, step, wb, lossSt, wt, rz, pool, pwc, tf, bproc, lc>>

InitTriplet ==
    /\ actor = ActorNone
    /\ lc = WholeLossIdle
    /\ bproc = BatchIdle
    /\ tf = TwoFlowsIdle
    /\ pwc = PWCIdle
    /\ pool = PoolIdle
    /\ rz = ResizeIdle
    /\ step = StepIdle
    /\ wb = WBIdle
    /\ lossSt = LossIdle
    /\ wt = WeightsIdle
    /\ triplet \in [pc : {"ready"}, cfg : TripletConfigs]

NextTriplet ==
    \/ TripletCall
    \/ GenerateFlow
    \/ CenterCrop
    \/ ResizeToOutput
    \/ ComputeMasks
    \/ Package

SpecTriplet == InitTriplet /\ [][NextTriplet]_vars

(***************************************************************************)
(* BatchedImageTripletCreation2Flows                                       *)
(*                                                                         *)
(* One call takes the output of the two generators and returns the         *)
(* mini-batch with the fields of the unsupervised triplet and, under the   *)
(* suffix '_ss', those of the self-supervised one.  warp is external: the  *)
(* padding_mode it takes when the caller gives none is an input of the     *)
(* model (warp_default).                                                   *)
(***************************************************************************)
\* square crops and outputs, min_percent_valid_corr at its default
TwoFlowsConfigs ==
    {c \in TripletConfigs : /\ c.crop_size[0] = c.crop_size[1]
                            /\ c.output_size[0] = c.output_size[1]
                            /\ c.min_percent_valid_corr = <<1, 10>>}

\* what a generator returns: a field of size 1 x 1 or MaxOut x MaxOut
GeneratorOutputs ==
    {Flow(n, n, uv, "synthetic_flow_generator") : n \in {1, MaxOut}, uv \in FlowValues}

\* compute_correspondence_mask: mask_gt = create_border_mask(flow) holding
\* mask_sum ones, and the mask of zero borders (None unless configured).
compute_correspondence_mask(cfg, f, b, mask_sum) ==
    [mask_gt |-> [h |-> f.h, w |-> f.w, src |-> "create_border_mask"],
     mask |-> IF cfg.compute_mask_zero_borders
              THEN [h |-> f.h, w |-> f.w,
                    src |-> IF TooFewValid(mask_sum, b, f.h, f.w, cfg.min_percent_valid_corr)
                            THEN "mask_gt"
                            ELSE "~occ_mask"]
              ELSE None]

\* One triplet of the call, from the flow gen of its generator and the
\* padding_mode that its warp is called with: rescale to the images, warp,
\* center crop, resize to output_size, masks.
TwoFlowsBranch(cfg, h, w, gen, padding_mode, b, mask_sum) ==
    LET c == CropSlices(h, w, cfg.crop_size)
        flow_gt == GeneratedFlow(gen, h, w)
        target_image_prime == WarpedImage(Image(h, w, "mini_batch.image"), padding_mode)
        image_cropped == CropTo(target_image_prime, c.ys, c.xs)
        flow_resized == ResizedFlow(CropTo(flow_gt, c.ys, c.xs), cfg)
        m == compute_correspondence_mask(cfg, flow_resized, b, mask_sum)
    IN  [target_image_prime |->
             IF cfg.output_size # cfg.crop_size
             THEN Interpolate(image_cropped, cfg.output_size)
             ELSE image_cropped,
         flow_map |-> Shape(flow_resized),
         correspondence_mask |-> m.mask_gt,
         mask_zero_borders |-> m.mask]

\* The fields written back to the mini-batch by one call.  The warp of the
\* unsupervised branch is given self.padding_mode (line 289), the warp of the
\* self-supervised branch is given none (line 302).
TwoFlowsBatch(cfg, warp_default, h, w, has_flow_map, gen_un, gen_ss, b, sum_un, sum_ss) ==
    LET c == CropSlices(h, w, cfg.crop_size)
        cropped == CropTo(Image(h, w, "mini_batch.image"), c.ys, c.xs)
        image_resized == IF cfg.output_size # cfg.crop_size
                         THEN Interpolate(cropped, cfg.output_size)
                         ELSE cropped
        un == TwoFlowsBranch(cfg, h, w, gen_un, cfg.padding_mode, b, sum_un)
        ss == TwoFlowsBranch(cfg, h, w, gen_ss, warp_default, b, sum_ss)
        m0 == [k \in {"source_image", "target_image"} |-> image_resized]
        m1 == IF has_flow_map
              THEN DictPut(DictPut(m0, "flow_map_target_to_source",
                                   [h |-> image_resized.h, w |-> image_resized.w,
                                    src |-> "mini_batch.flow_map"]),
                           "correspondence_mask_target_to_source",
                           [h |-> image_resized.h, w |-> image_resized.w,
                            src |-> "mini_batch.correspondence_mask"])
              ELSE m0
        m2 == DictPut(DictPut(m1, "target_image_prime", un.target_image_prime),
                      "correspondence_mask", un.correspondence_mask)
        m3 == IF cfg.compute_mask_zero_borders
              THEN DictPut(m2, "mask_zero_borders", un.mask_zero_borders)
              ELSE m2
        m4 == DictPut(m3, "flow_map", un.flow_map)
        m5 == DictPut(DictPut(m4, "target_image_prime_ss", ss.target_image_prime),
                      "correspondence_mask_ss", ss.correspondence_mask)
        m6 == IF cfg.compute_mask_zero_borders
              THEN DictPut(m5, "mask_zero_borders_ss", ss.mask_zero_borders)
              ELSE m5
    IN  DictPut(m6, "flow_map_ss", ss.flow_map)

\* The fields BatchedImageTripletCreation writes for the same configuration,
\* images and generator output: its stages generate, crop, resize, masks and
\* package in one expression.
SingleFlowBatch(cfg, h, w, has_flow_map, gen, b, mask_sum) ==
    LET c == CropSlices(h, w, cfg.crop_size)
        cropped == CropTo(Image(h, w, "mini_batch.image"), c.ys, c.xs)
        image_resized == IF cfg.output_size # cfg.crop_size
                         THEN Interpolate(cropped, cfg.output_size)
                         ELSE cropped
        f == ResizedFlow(CropTo(GeneratedFlow(gen, h, w), c.ys, c.xs), cfg)
    IN  PackagedBatch([cfg |-> cfg, has_flow_map |-> has_flow_map,
                       image_resized |-> image_resized,
                       flow_gt_resized |-> Shape(f),
                       flow_gt_target_to_source |->
                           IF has_flow_map
                           THEN [h |-> image_resized.h, w |-> image_resized.w,
                                 src |-> "mini_batch.flow_map"]
                           ELSE None,
                       mask_gt |-> [b |-> b, h |-> f.h, w |-> f.w, sum |-> mask_sum,
                                    src |-> "create_border_mask"],
                       mask_source |->
                           IF cfg.compute_mask_zero_borders
                           THEN ZeroBordersSource(mask_sum, b, f.h, f.w,
                                                  cfg.min_percent_valid_corr)
                           ELSE "unset"])

\* A call: the images of the mini-batch (b of them, h x w), whether it has a
\* ground-truth flow, what the two generators return, and how many pixels
\* of each border mask are valid (none or all of them).
TwoFlowsCall ==
    /\ tf.pc = "ready"
    /\ \E h \in 1..MaxDim, w \in 1..MaxDim, b \in 1..MaxBatch, has_flow_map \in BOOLEAN :
       \E gen_un \in GeneratorOutputs, gen_ss \in GeneratorOutputs :
       \E all_un \in BOOLEAN, all_ss \in BOOLEAN :
          tf' = [pc |-> "called", cfg |-> tf.cfg, warp_default |-> tf.warp_default,
                 h |-> h, w |-> w, b |-> b, has_flow_map |-> has_flow_map,
                 gen_un |-> gen_un, gen_ss |-> gen_ss,
                 all_un |-> all_un, all_ss |-> all_ss]
    /\ UNCHANGED <<actor, step, triplet, wb, lossSt, wt, rz, pool, pwc, bproc, lc>>

\* mask_gt.sum() of a border mask of b maps of the size of the resized flow:
\* all of its pixels valid, or none
BorderMaskSum(all_valid, b, cfg, h, w) ==
    LET c == CropSlices(h, w, cfg.crop_size)
        cropped == CropTo(Image(h, w, "mini_batch.image"), c.ys, c.xs)
        f == IF cfg.output_size # cfg.crop_size
             THEN Interpolate(cropped, cfg.output_size)
             ELSE cropped
    IN  IF all_valid THEN b * f.h * f.w ELSE 0

TwoFlowsReturn ==
    /\ tf.pc = "called"
    /\ LET sum_un == BorderMaskSum(tf.all_un, tf.b, tf.cfg, tf.h, tf.w)
           sum_ss == BorderMaskSum(tf.all_ss, tf.b, tf.cfg, tf.h, tf.w)
       IN  tf' = [tf EXCEPT !.pc = "returned"] @@
                 [sum_un |-> sum_un, sum_ss |-> sum_ss,
                  mini_batch |-> TwoFlowsBatch(tf.cfg, tf.warp_default, tf.h, tf.w,
                                               tf.has_flow_map, tf.gen_un, tf.gen_ss,
                                               tf.b, sum_un, sum_ss)]
    /\ UNCHANGED <<actor, step, triplet, wb, lossSt, wt, rz, pool, pwc, bproc, lc>>

InitTwoFlows ==
    /\ actor = ActorNone
    /\ lc = WholeLossIdle
    /\ bproc = BatchIdle
    /\ step = StepIdle
    /\ triplet = TripletIdle
    /\ wb = WBIdle
    /\ lossSt = LossIdle
    /\ wt = WeightsIdle
    /\ rz = ResizeIdle
    /\ pool = PoolIdle
    /\ pwc = PWCIdle
    /\ tf \in [pc : {"ready"}, cfg : TwoFlowsConfigs, warp_default : PaddingModes]

NextTwoFlows ==
    \/ TwoFlowsCall
    \/ TwoFlowsReturn

SpecTwoFlows == InitTwoFlows /\ [][NextTwoFlows]_vars

(***************************************************************************)
(* The places where a flow field is resized with F.interpolate             *)
(***************************************************************************)
\* an optional float argument: None, or a value
OptNone == [some |-> FALSE]

Some(q) == [some |-> TRUE, q |-> q]

\* the ratio_x / ratio_y arguments of realEPE and real_metrics
Ratios == {OptNone, Some(<<2, 1>>), Some(<<1, 2>>)}

\* The synthetic flow brought to the level and rescaled by the size ratios.
SyntheticAtLevelRescaled(synthetic_flow, size) ==
    ResizeFlow(synthetic_flow, size, Pair(synthetic_flow.h, synthetic_flow.w))

\* get_cyclic_consistency_mask: synthetic_flow = F.interpolate(synthetic_flow, (h_, w_))
SyntheticAtLevel(synthetic_flow, size) == Interpolate(synthetic_flow, size)

\* GetBaseNetPredictions: the finest estimate interpolated to the image size
BaseNetPrediction(flow, size) == Interpolate(flow, size)

\* realEPE / real_metrics: upsampled_output, multiplied by the ratios only if
\* both are given
UpsampledOutput(output, size, ratio_x, ratio_y) ==
    IF ratio_x # OptNone /\ ratio_y # OptNone
    THEN ScaleChannels(Interpolate(output, size),
                       ratio_x.q[1], ratio_x.q[2], ratio_y.q[1], ratio_y.q[2])
    ELSE Interpolate(output, size)

ResizeInputs ==
    {Flow(h, w, uv, "input") : h \in 1..MaxDim, w \in 1..MaxDim, uv \in FlowValues}

ResizeSizes == {Pair(a, b) : a \in 1..MaxOut, b \in 1..MaxOut}

Resized(site, out) ==
    [pc |-> "resized", site |-> site, flow |-> rz.flow, size |-> rz.size, out |-> out]

ResizeSyntheticInCyclicMask ==
    /\ rz.pc = "input"
    /\ rz' = Resized("get_cyclic_consistency_mask", SyntheticAtLevel(rz.flow, rz.size))
    /\ UNCHANGED <<actor, step, triplet, wb, lossSt, wt, pool, pwc, tf, bproc, lc>>

ResizeGeneratedFlow ==
    /\ rz.pc = "input"
    /\ rz' = Resized("triplet_generated_flow", GeneratedFlow(rz.flow, rz.size[0], rz.size[1]))
    /\ UNCHANGED <<actor, step, triplet, wb, lossSt, wt, pool, pwc, tf, bproc, lc>>

\* The flow is what the center crop left; crop_size is the configured one.
ResizeCropToOutput ==
    /\ rz.pc = "input"
    /\ \E ch \in CropSides, cw \in CropSides :
          LET cfg == [output_size |-> rz.size, crop_size |-> Pair(ch, cw)]
          IN  rz' = [Resized("triplet_output_size", ResizedFlow(rz.flow, cfg))
                        EXCEPT !.size = cfg]
    /\ UNCHANGED <<actor, step, triplet, wb, lossSt, wt, pool, pwc, tf, bproc, lc>>

ResizeBaseNetPrediction ==
    /\ rz.pc = "input"
    /\ rz' = Resized("GetBaseNetPredictions", BaseNetPrediction(rz.flow, rz.size))
    /\ UNCHANGED <<actor, step, triplet, wb, lossSt, wt, pool, pwc, tf, bproc, lc>>

UpsampleInRealEPE ==
    /\ rz.pc = "input"
    /\ \E ratio_x \in Ratios, ratio_y \in Ratios :
          rz' = [pc |-> "resized", site |-> "realEPE", flow |-> rz.flow, size |-> rz.size,
                 ratio_x |-> ratio_x, ratio_y |-> ratio_y,
                 out |-> UpsampledOutput(rz.flow, rz.size, ratio_x, ratio_y)]
    /\ UNCHANGED <<actor, step, triplet, wb, lossSt, wt, pool, pwc, tf, bproc, lc>>

UpsampleInRealMetrics ==
    /\ rz.pc = "input"
    /\ \E ratio_x \in Ratios, ratio_y \in Ratios :
          rz' = [pc |-> "resized", site |-> "real_metrics", flow |-> rz.flow, size |-> rz.size,
                 ratio_x |-> ratio_x, ratio_y |-> ratio_y,
                 out |-> UpsampledOutput(rz.flow, rz.size, ratio_x, ratio_y)]
    /\ UNCHANGED <<actor, step, triplet, wb, lossSt, wt, pool, pwc, tf, bproc, lc>>

InitResize ==
    /\ actor = ActorNone
    /\ lc = WholeLossIdle
    /\ bproc = BatchIdle
    /\ tf = TwoFlowsIdle
    /\ pwc = PWCIdle
    /\ pool = PoolIdle
    /\ step = StepIdle
    /\ triplet = TripletIdle
    /\ wb = WBIdle
    /\ lossSt = LossIdle
    /\ wt = WeightsIdle
    /\ rz \in [pc : {"input"}, flow : ResizeInputs, size : ResizeSizes]

NextResize ==
    \/ ResizeSyntheticInCyclicMask
    \/ ResizeGeneratedFlow
    \/ ResizeCropToOutput
    \/ ResizeBaseNetPrediction
    \/ UpsampleInRealEPE
    \/ UpsampleInRealMetrics

SpecResize == InitResize /\ [][NextResize]_vars

(***************************************************************************)
(* WBipathLoss                                                             *)
(*                                                                         *)
(* flow_map is a constant field (see Flow).  A pyramid level is given by   *)
(* its size (h_, w_) and by what is found at one of its pixels: the        *)
(* estimated target-prime-to-source flow a, the value b that warp samples  *)
(* from the estimated source-to-target flow, the value cov that warp       *)
(* samples from the all-ones map, and the value of mask_used interpolated  *)
(* to the level.  warp and F.interpolate of a mask are external: their     *)
(* values are inputs.  The lists of the output keep, per level, the mask   *)
(* bits at that pixel; the composed flows are kept by their level number.  *)
(***************************************************************************)
\* Sums, differences and products of fractions, left unreduced: they are only
\* compared.  (The operands are named first so that each is evaluated once.)
RAdd(p, q) == LET x == p  y == q IN <<x[1] * y[2] + y[1] * x[2], x[2] * y[2]>>

RSub(p, q) == LET x == p  y == q IN <<x[1] * y[2] - y[1] * x[2], x[2] * y[2]>>

RMul(p, q) == LET x == p  y == q IN <<x[1] * y[1], x[2] * y[2]>>

\* p > q
RGreater(p, q) == LET x == p  y == q IN x[1] * y[2] > y[1] * x[2]

\* tensor.ge(q)
RGe(p, q) == LET x == p  y == q IN x[1] * y[2] >= y[1] * x[2]

\* a flow vector (u, v) with integer entries
Vec(uv) == <<<<uv[1], 1>>, <<uv[2], 1>>>>

VAdd(p, q) == LET x == p  y == q IN <<RAdd(x[1], y[1]), RAdd(x[2], y[2])>>

VSub(p, q) == LET x == p  y == q IN <<RSub(x[1], y[1]), RSub(x[2], y[2])>>

\* length_sq(x) = torch.sum(x ** 2, dim=1)
length_sq(p) == LET x == p IN RAdd(RMul(x[1], x[1]), RMul(x[2], x[2]))

\* the defaults alpha_1 = 0.01, alpha_2 = 0.5, and alpha_1 = 1, alpha_2 = 0
WBConfigs ==
    [detach_flow_for_warping : BOOLEAN, compute_cyclic_consistency : BOOLEAN,
     alpha_1 : {<<1, 100>>}, alpha_2 : {<<1, 2>>}]
    \cup [detach_flow_for_warping : BOOLEAN, compute_cyclic_consistency : {TRUE},
          alpha_1 : {<<1, 1>>}, alpha_2 : {<<0, 1>>}]


\* estimated target-prime-to-source flows at a pixel
EstimatedFlows == {<<1, 0>>, <<0, 2>>, <<0, 0>>}

\* values of warp(estimated_flow_source_to_target, ...) at a pixel
WarpedFlows == {<<0, -1>>, <<1, 1>>, <<0, 0>>}

\* values of warp(ones, ...) at a pixel: below, at and above the threshold 0.2
Coverages == {<<1, 10>>, <<1, 5>>, <<1, 1>>}

\* values of the interpolated mask_used at a pixel: below, at and above 0.98
MaskValues == {<<97, 100>>, <<49, 50>>, <<1, 1>>}

\* WarpingCopy that keeps the gradient of the estimate whatever the option.
WarpingCopyAttached(a, detach, h_, w_, h, w) ==
    [u |-> RatScale(Vec(a)[1], w_, w), v |-> RatScale(Vec(a)[2], h_, h),
     requires_grad |-> TRUE, storage |-> "new"]

\* WarpingCopy without the "* 1.0": the tensor shares the storage of the
\* estimate, which the in-place rescaling then writes.
WarpingCopyAliased(a, detach, h_, w_, h, w) ==
    [u |-> RatScale(Vec(a)[1], w_, w), v |-> RatScale(Vec(a)[2], h_, h),
     requires_grad |-> ~detach, storage |-> "input"]

\* estimated_flow_target_prime_to_source_per_level_warping: a copy (detached or
\* not), channel 0 times w_ / w and channel 1 times h_ / h
\* ("* 1.0" allocates a new tensor: the in-place "*=" write its storage)
WarpingCopy(a, detach, h_, w_, h, w) ==
    [u |-> RatScale(Vec(a)[1], w_, w), v |-> RatScale(Vec(a)[2], h_, h),
     requires_grad |-> ~detach, storage |-> "new"]

\* the estimate of the level as the caller sees it after the in-place rescaling
EstimateAfterRescaling(a, warping) ==
    IF warping.storage = "input" THEN <<warping.u, warping.v>> ELSE Vec(a)

\* Which ways a tensor depends differentiably on the estimated flows of the
\* network, as a set of path names.  x.detach() has none; warp(x, grid) has
\* "warped_values" when x has a path and "sampling_grid" when grid has one.
DetachPaths(paths) == {}

WarpPaths(x, grid) ==
    (IF x # {} THEN {"warped_values"} ELSE {})
        \cup (IF grid # {} THEN {"sampling_grid"} ELSE {})

\* The gradient paths of one level (lines 109-131): the two estimated flows
\* come from the network; the composed flow is the estimate plus the warped
\* source-to-target flow; the coverage mask is warped from ones with the
\* detached copy as grid; the cyclic mask is computed from detached tensors.
LevelGradients(warping) ==
    LET estimate == {"estimated_flow"}
        grid == IF warping.requires_grad THEN estimate ELSE DetachPaths(estimate)
        warping_flow_source_to_target == WarpPaths(estimate, grid)
    IN  [estimated_flow |-> {"added_term"} \cup warping_flow_source_to_target,
         coverage_mask |-> WarpPaths({}, DetachPaths(grid)),
         mask_cyclic |-> DetachPaths(estimate)
                           \cup DetachPaths(warping_flow_source_to_target)]

\* get_cyclic_consistency_mask with >= in place of >.
get_cyclic_consistency_mask_ge(a, b, synthetic_flow, size, alpha_1, alpha_2) ==
    LET sl == SyntheticAtLevel(synthetic_flow, size)
        s == <<sl.u, sl.v>>
        mag_sq_fw == RAdd(RAdd(length_sq(a), length_sq(b)), length_sq(s))
        occ_thresh_fw == RAdd(RMul(alpha_1, mag_sq_fw), alpha_2)
        fb_occ_fw == RGe(length_sq(VSub(VAdd(a, b), s)), occ_thresh_fw)
    IN  ~fb_occ_fw

\* get_cyclic_consistency_mask at a pixel
get_cyclic_consistency_mask(a, b, synthetic_flow, size, alpha_1, alpha_2) ==
    LET sl == SyntheticAtLevel(synthetic_flow, size)
        s == <<sl.u, sl.v>>
        mag_sq_fw == RAdd(RAdd(length_sq(a), length_sq(b)), length_sq(s))
        occ_thresh_fw == RAdd(RMul(alpha_1, mag_sq_fw), alpha_2)
        fb_occ_fw == RGreater(length_sq(VSub(VAdd(a, b), s)), occ_thresh_fw)
    IN  ~fb_occ_fw

\* The training mask is the cyclic mask alone.
CombineMasksCyclicOnly(mask, mask_cyclic) == mask_cyclic

\* mask = mask & mask_cyclic
CombineMasks(mask, mask_cyclic) == mask /\ mask_cyclic

\* LevelOutputs with mask_used left out of the training mask.
LevelOutputsWithoutMaskUsed(cfg, flow_map, mask_used_given, lvl) ==
    LET warping == WarpingCopy(lvl.a, cfg.detach_flow_for_warping,
                               lvl.size[0], lvl.size[1], flow_map.h, flow_map.w)
        estimated_flow == Vec(<<lvl.a[1] + lvl.b[1], lvl.a[2] + lvl.b[2]>>)
        mask == RGe(lvl.cov, <<1, 5>>)
        mask_cyclic == get_cyclic_consistency_mask(Vec(lvl.a), Vec(lvl.b), flow_map,
                           lvl.size, cfg.alpha_1, cfg.alpha_2)
    IN  [warping |-> warping,
         estimated_flow |-> estimated_flow,
         grad |-> LevelGradients(warping),
         input_after |-> EstimateAfterRescaling(lvl.a, warping),
         mask_cyclic |-> IF cfg.compute_cyclic_consistency THEN mask_cyclic ELSE FALSE,
         mask |-> IF cfg.compute_cyclic_consistency
                  THEN CombineMasks(mask, mask_cyclic)
                  ELSE mask]

\* The body of the loop over the levels: the flow used for warping, the
\* composed flow and the masks of one level.
LevelOutputs(cfg, flow_map, mask_used_given, lvl) ==
    LET warping == WarpingCopy(lvl.a, cfg.detach_flow_for_warping,
                               lvl.size[0], lvl.size[1], flow_map.h, flow_map.w)
        estimated_flow == Vec(<<lvl.a[1] + lvl.b[1], lvl.a[2] + lvl.b[2]>>)
        mask_warp == RGe(lvl.cov, <<1, 5>>)
        mask == IF mask_used_given
                THEN mask_warp /\ RGe(lvl.mask_used, <<49, 50>>)
                ELSE mask_warp
        mask_cyclic == get_cyclic_consistency_mask(Vec(lvl.a), Vec(lvl.b), flow_map,
                           lvl.size, cfg.alpha_1, cfg.alpha_2)
    IN  [warping |-> warping,
         estimated_flow |-> estimated_flow,
         grad |-> LevelGradients(warping),
         input_after |-> EstimateAfterRescaling(lvl.a, warping),
         mask_cyclic |-> IF cfg.compute_cyclic_consistency THEN mask_cyclic ELSE FALSE,
         mask |-> IF cfg.compute_cyclic_consistency
                  THEN CombineMasks(mask, mask_cyclic)
                  ELSE mask]

\* sizes (h, w) of flow_map, and sizes (h_, w_) of a level
FlowMapSizes == {Pair(MaxDim, MaxDim), Pair(1, MaxDim)}

\* flow_map: a constant field of one of these sizes, the zero field for one
FlowMaps ==
    { Flow(size[0], size[1], <<1, -1>>, "flow_map") : size \in FlowMapSizes }
        \cup { Flow(1, MaxDim, <<0, 0>>, "flow_map") }

LevelSizes == {Pair(1, 1), Pair(MaxOut, 1), Pair(1, MaxOut)}

\* what a level is at a pixel (the two estimates vanish together)
Levels(mask_used_given) ==
    { l \in IF mask_used_given
            THEN [size : LevelSizes, a : EstimatedFlows, b : WarpedFlows,
                  cov : Coverages, mask_used : MaskValues]
            ELSE [size : LevelSizes, a : EstimatedFlows, b : WarpedFlows,
                  cov : Coverages] :
        (l.a = <<0, 0>>) <=> (l.b = <<0, 0>>) }

\* __call__(flow_map, mask_used, estimated flows): a list of n levels, or a
\* single tensor that is wrapped into a list of one level
WBCall ==
    /\ wb.pc \in {"ready", "returned"}
    /\ \E flow_map \in FlowMaps, mask_used_given \in BOOLEAN,
          n \in 1..MaxLevels, is_list \in BOOLEAN :
          /\ ~is_list => n = 1
          /\ wb' = [pc |-> "levels", cfg |-> wb.cfg,
                    flow_map |-> flow_map,
                    mask_used_given |-> mask_used_given,
                    is_list |-> is_list, n |-> n, nbr |-> 0,
                    level |-> None, out |-> None,
                    composition |-> <<>>, masks |-> <<>>, mask_cyclic_list |-> <<>>]
    /\ UNCHANGED <<actor, step, triplet, lossSt, wt, rz, pool, pwc, tf, bproc, lc>>

\* one iteration of the loop of lines 105-134
WBLevel ==
    /\ wb.pc = "levels"
    /\ wb.nbr < wb.n
    /\ \E lvl \in Levels(wb.mask_used_given) :
       \E out \in {LevelOutputs(wb.cfg, wb.flow_map, wb.mask_used_given, lvl)} :
              wb' = [wb EXCEPT
                        !.nbr = wb.nbr + 1,
                        !.level = lvl,
                        !.out = out,
                        !.composition = Append(wb.composition, [level |-> wb.nbr]),
                        !.masks = Append(wb.masks, out.mask),
                        !.mask_cyclic_list =
                            IF wb.cfg.compute_cyclic_consistency
                            THEN Append(wb.mask_cyclic_list, out.mask_cyclic)
                            ELSE wb.mask_cyclic_list]
    /\ UNCHANGED <<actor, step, triplet, lossSt, wt, rz, pool, pwc, tf, bproc, lc>>

\* WBOutput with the 'mask_cyclic' entry written whatever the configuration.
WBOutputAlwaysCyclic(w) ==
    DictPut(DictPut(DictPut(EmptyDict, "mask_training", w.masks),
                    "mask_cyclic", w.mask_cyclic_list),
            "estimated_flow_target_prime_to_target_through_composition",
            w.composition)

\* The output dictionary of lines 136-140.
WBOutput(w) ==
    LET o1 == DictPut(EmptyDict, "mask_training", w.masks)
        o2 == IF w.cfg.compute_cyclic_consistency
              THEN DictPut(o1, "mask_cyclic", w.mask_cyclic_list)
              ELSE o1
    IN  DictPut(o2, "estimated_flow_target_prime_to_target_through_composition",
                w.composition)

\* The objective is called on the composed flows, flow_map and the masks.
WBReturn ==
    /\ wb.pc = "levels"
    /\ wb.nbr = wb.n
    /\ wb' = [pc |-> "returned", cfg |-> wb.cfg, n |-> wb.n,
              is_list |-> wb.is_list,
              output |-> WBOutput(wb),
              objective_args |-> [est |-> wb.composition, gt |-> Shape(wb.flow_map),
                                  mask |-> wb.masks]]
    /\ UNCHANGED <<actor, step, triplet, lossSt, wt, rz, pool, pwc, tf, bproc, lc>>

InitWBipath ==
    /\ actor = ActorNone
    /\ lc = WholeLossIdle
    /\ bproc = BatchIdle
    /\ tf = TwoFlowsIdle
    /\ pwc = PWCIdle
    /\ pool = PoolIdle
    /\ step = StepIdle
    /\ triplet = TripletIdle
    /\ lossSt = LossIdle
    /\ wt = WeightsIdle
    /\ rz = ResizeIdle
    /\ wb \in [pc : {"ready"}, cfg : WBConfigs]

NextWBipath ==
    \/ WBCall
    \/ WBLevel
    \/ WBReturn

SpecWBipath == InitWBipath /\ [][NextWBipath]_vars

(***************************************************************************)
(* Point-wise losses EPE, L1, L1Charbonnier                                *)
(*                                                                         *)
(* A float is [cls, x]: finite with value x, NaN, or +Inf.  The values of  *)
(* an error map are counted in units of 1 / ErrDen(kind).  A sample is the *)
(* sequence of its h * w pixels, a pixel being [d, m]: the difference      *)
(* est_flow - gt_flow there and the bit of the mask given by the caller    *)
(* (no m when mask=None).  The samples of the batch are read one per       *)
(* iteration of the loop.                                                  *)
(***************************************************************************)
Fin(x) == [cls |-> "fin", x |-> x]

NaN == [cls |-> "nan", x |-> 0]

Inf == [cls |-> "inf", x |-> 0]

\* a + b on floats (no negative infinity occurs: the maps are non-negative)
FAdd(a, b) ==
    IF a.cls = "nan" \/ b.cls = "nan" THEN NaN
    ELSE IF a.cls = "inf" \/ b.cls = "inf" THEN Inf
    ELSE Fin(a.x + b.x)

\* v * m.float() with m a boolean: NaN * 0 and Inf * 0 are NaN
FMulBool(v, m) ==
    IF m THEN v
    ELSE IF v.cls = "fin" THEN Fin(0) ELSE NaN

\* v * k for a finite k > 0
FScale(v, k) == IF v.cls = "fin" THEN Fin(v.x * k) ELSE v

\* the differences est_flow - gt_flow met at a pixel
PixelDiffs ==
    {[cls |-> "fin", du |-> 1, dv |-> 0], [cls |-> "fin", du |-> -3, dv |-> 4],
     [cls |-> "nan", du |-> 0, dv |-> 0], [cls |-> "inf", du |-> 0, dv |-> 0]}

\* the pixels of a call with a mask: every difference where the caller's mask
\* is set, and a pixel that the caller masks out
Pixels ==
    {[d |-> x, m |-> TRUE] : x \in PixelDiffs} \cup
    {[d |-> [cls |-> "fin", du |-> 1, dv |-> 0], m |-> FALSE]}

LossKinds == {"EPE", "L1", "L1Charbonnier"}

\* units of the error map: thousandths for L1Charbonnier, whose values are not integers
ErrDen(kind) == IF kind = "L1Charbonnier" THEN 1000 ELSE 1

\* torch.norm(d, 2) for the differences of PixelDiffs
Norm2(du, dv) == CHOOSE r \in 0..(Abs(du) + Abs(dv)) : r * r = du * du + dv * dv

\* torch.pow(l1 + epsilon, alpha), epsilon = 0.01, alpha = 0.4, in thousandths
Charbonnier(l1) ==
    CASE l1 = 1 -> 1004
      [] l1 = 7 -> 2179

\* The error map at a pixel.
PointwiseError(kind, d) ==
    IF d.cls = "nan" THEN NaN
    ELSE IF d.cls = "inf" THEN Inf
    ELSE CASE kind = "EPE" -> Fin(Norm2(d.du, d.dv))
           [] kind = "L1" -> Fin(Abs(d.du) + Abs(d.dv))
           [] kind = "L1Charbonnier" -> Fin(Charbonnier(Abs(d.du) + Abs(d.dv)))

\* The mask of the caller taken as it is.
ValidMaskUnfiltered(v, m) == m

\* mask = ~isnan(map) & ~isinf(map) & mask
ValidMask(v, m) == v.cls = "fin" /\ m

\* The bit of the caller's mask at a pixel (mask=None: no mask to intersect with).
MaskBit(px) == IF "m" \in DOMAIN px THEN px.m ELSE TRUE

\* mask[bb] after the filter, one boolean per pixel
SampleMask(kind, sample) ==
    [i \in 1..Len(sample) |->
        ValidMask(PointwiseError(kind, sample[i].d), MaskBit(sample[i]))]

\* map[bb] after map = map * mask.float()
SampleMap(kind, sample) ==
    LET mask == SampleMask(kind, sample)
    IN  [i \in 1..Len(sample) |->
            FMulBool(PointwiseError(kind, sample[i].d), mask[i])]

RECURSIVE SumSelected(_, _, _)
\* map[bb][mask[bb] != 0].sum() over the first k pixels
SumSelected(map, mask, k) ==
    IF k = 0 THEN Fin(0)
    ELSE IF mask[k] THEN FAdd(SumSelected(map, mask, k - 1), map[k])
         ELSE SumSelected(map, mask, k - 1)

RECURSIVE MaskSum(_, _)
\* mask[bb].sum() over the first k pixels
MaskSum(mask, k) ==
    IF k = 0 THEN 0 ELSE MaskSum(mask, k - 1) + (IF mask[k] THEN 1 ELSE 0)

\* 1e-6 is 1 / EpsNormDen
EpsNormDen == 1000000

\* A normalisation constant that does not look at the mask.
NormConstUnnormalized(h, w, n) == [num |-> 1, n |-> 1, eps |-> 0]

\* norm_const = float(h * w) / (n + 1e-6): the quotient num / (n + eps * 1e-6)
NormConst(h, w, n) == [num |-> h * w, n |-> n, eps |-> 1]

\* One iteration of the loop: what sample bb adds to L.
SampleTerm(kind, h, w, sample) ==
    LET mask == SampleMask(kind, sample)
        map == SampleMap(kind, sample)
        n == MaskSum(mask, Len(mask))
        sum == SumSelected(map, mask, Len(mask))
        norm_const == NormConst(h, w, n)
    IN  [sum |-> sum, n_valid |-> n, norm_const |-> norm_const,
         \* sum * norm_const = value / (n + eps * 1e-6)
         value |-> FScale(sum, norm_const.num)]

LossConfigs == [kind : LossKinds, sum_normalized : BOOLEAN]

LossShapes == {sh \in (1..MaxPix) \X (1..MaxPix) : sh[1] * sh[2] <= MaxPix}

\* The samples of (h * w) pixels, with the caller's mask or with mask=None.
Samples(npix, mask_none) ==
    [1..npix -> IF mask_none THEN {[d |-> x] : x \in PixelDiffs} ELSE Pixels]

\* __call__(gt_flow, est_flow, mask): the shapes, and whether a mask is given.
LossCall ==
    /\ lossSt.pc \in {"ready", "returned"}
    /\ \E b \in 1..MaxBatch, sh \in LossShapes, mask_none \in BOOLEAN :
          lossSt' = [pc |-> "loop", cfg |-> lossSt.cfg, b |-> b, h |-> sh[1], w |-> sh[2],
                     mask_none |-> mask_none, bb |-> 0, L |-> <<>>]
    /\ UNCHANGED <<actor, step, triplet, wb, wt, rz, pool, pwc, tf, bproc, lc>>

\* for bb in range(0, b): L = L + map[bb][mask[bb] != 0].sum() * norm_const
LossSample ==
    /\ lossSt.pc = "loop"
    /\ lossSt.bb < lossSt.b
    /\ \E sample \in Samples(lossSt.h * lossSt.w, lossSt.mask_none) :
          lossSt' = [pc |-> "loop", cfg |-> lossSt.cfg, b |-> lossSt.b,
                     h |-> lossSt.h, w |-> lossSt.w, mask_none |-> lossSt.mask_none,
                     bb |-> lossSt.bb + 1,
                     sample |-> sample,
                     L |-> Append(lossSt.L,
                                  SampleTerm(lossSt.cfg.kind, lossSt.h, lossSt.w, sample))]
    /\ UNCHANGED <<actor, step, triplet, wb, wt, rz, pool, pwc, tf, bproc, lc>>

\* return L / b if self.sum_normalized else L
LossResult(cfg, L, b) == [terms |-> L, div |-> IF cfg.sum_normalized THEN b ELSE 1]

LossReturn ==
    /\ lossSt.pc = "loop"
    /\ lossSt.bb = lossSt.b
    /\ lossSt' = [pc |-> "returned", cfg |-> lossSt.cfg, b |-> lossSt.b,
                  h |-> lossSt.h, w |-> lossSt.w,
                  result |-> LossResult(lossSt.cfg, lossSt.L, lossSt.b)]
    /\ UNCHANGED <<actor, step, triplet, wb, wt, rz, pool, pwc, tf, bproc, lc>>

InitLoss ==
    /\ actor = ActorNone
    /\ lc = WholeLossIdle
    /\ bproc = BatchIdle
    /\ tf = TwoFlowsIdle
    /\ pwc = PWCIdle
    /\ pool = PoolIdle
    /\ rz = ResizeIdle
    /\ step = StepIdle
    /\ triplet = TripletIdle
    /\ wb = WBIdle
    /\ wt = WeightsIdle
    /\ lossSt \in [pc : {"ready"}, cfg : LossConfigs]

NextLoss ==
    \/ LossCall
    \/ LossSample
    \/ LossReturn

SpecLoss == InitLoss /\ [][NextLoss]_vars

(***************************************************************************)
(* EPE, L1, L1Charbonnier: one whole call                                  *)
(*                                                                         *)
(* The same losses, a call taken as one step: which of the three return    *)
(* paths of __call__ it takes (the masked per-sample normalisation, the    *)
(* one of valid_transformation_bool, the plain one) and what it returns.   *)
(* The mask of the caller is None, all true, or false at the first pixel   *)
(* of every sample; valid_transformation_bool is the attribute set to None *)
(* by __init__, which a caller may replace by one boolean per sample.      *)
(***************************************************************************)
MaskKinds == {"None", "all_true", "first_false"}

\* the error of the pixels of one sample: one value everywhere, or a finite
\* first pixel followed by NaN
SampleDiffs(npix) ==
    {[i \in 1..npix |-> x] : x \in PixelDiffs} \cup
    {[i \in 1..npix |-> IF i = 1 THEN [cls |-> "fin", du |-> -3, dv |-> 4]
                        ELSE [cls |-> "nan", du |-> 0, dv |-> 0]]}

\* the pixels [d, m] of a sample under the caller's mask (no m when mask=None)
WithMask(diffs, mask_kind) ==
    [i \in 1..Len(diffs) |->
        IF mask_kind = "None" THEN [d |-> diffs[i]]
        ELSE [d |-> diffs[i], m |-> (mask_kind = "all_true" \/ i > 1)]]

\* self.valid_transformation_bool: None, or one boolean per sample
ValidTransformationBools(b) ==
    {[none |-> TRUE]} \cup {[none |-> FALSE, valid |-> [i \in 1..b |-> v]] : v \in BOOLEAN}

\* Whether mask is None at the test 'if mask is not None' that follows the
\* filter, had the mask=None branch of the filter left it None.
MaskIsNoneAfterFilterKept(mask_kind) == mask_kind = "None"

\* Whether mask is None at the test 'if mask is not None' that follows the
\* filter: both branches of the filter assign a tensor to mask.
MaskIsNoneAfterFilter(mask_kind) == FALSE

\* The return path of a call.
LossPath(mask_kind, vtb) ==
    IF ~MaskIsNoneAfterFilter(mask_kind) THEN "masked"
    ELSE IF ~vtb.none THEN "valid_transformation_bool"
    ELSE "plain"

RECURSIVE MapTimesSum(_, _, _, _)
\* (map[bb] * keep).sum() over the first k pixels of a sample
MapTimesSum(kind, sample, keep, k) ==
    IF k = 0 THEN Fin(0)
    ELSE FAdd(MapTimesSum(kind, sample, keep, k - 1),
              FMulBool(PointwiseError(kind, sample[k].d), keep))

RECURSIVE CountTrue(_, _)
CountTrue(valid, k) ==
    IF k = 0 THEN 0 ELSE CountTrue(valid, k - 1) + (IF valid[k] THEN 1 ELSE 0)

\* What a call returns: the terms summed over the batch and the number the
\* sum is divided by; scalar is FALSE where the map itself is returned.
LossValue(cfg, mask_kind, vtb, b, h, w, diffs) ==
    LET path == LossPath(mask_kind, vtb)
    IN  CASE path = "masked" ->
               [path |-> path, scalar |-> TRUE,
                terms |-> [i \in 1..b |->
                              SampleTerm(cfg.kind, h, w, WithMask(diffs[i], mask_kind)).value],
                norms |-> [i \in 1..b |->
                              SampleTerm(cfg.kind, h, w, WithMask(diffs[i], mask_kind)).norm_const],
                div |-> IF cfg.sum_normalized THEN b ELSE 1]
          [] path = "valid_transformation_bool" ->
               [path |-> path, scalar |-> TRUE,
                terms |-> [i \in 1..b |->
                              MapTimesSum(cfg.kind, WithMask(diffs[i], mask_kind),
                                          vtb.valid[i], h * w)],
                norms |-> [i \in 1..b |-> NormConstUnnormalized(h, w, 0)],
                div |-> IF cfg.kind = "EPE" /\ ~cfg.sum_normalized
                        THEN 1 ELSE CountTrue(vtb.valid, b)]
          [] path = "plain" ->
               [path |-> path, scalar |-> cfg.sum_normalized,
                terms |-> [i \in 1..b |->
                              MapTimesSum(cfg.kind, WithMask(diffs[i], mask_kind),
                                          TRUE, h * w)],
                norms |-> [i \in 1..b |-> NormConstUnnormalized(h, w, 0)],
                div |-> IF cfg.sum_normalized THEN b ELSE 1]

\* __call__(gt_flow, est_flow, mask) on an object whose attribute
\* valid_transformation_bool is vtb
WholeLossCall ==
    /\ lc.pc = "ready"
    /\ \E b \in 1..MaxBatch, sh \in LossShapes, mask_kind \in MaskKinds :
       \E vtb \in ValidTransformationBools(b) :
       \E diffs \in [1..b -> SampleDiffs(sh[1] * sh[2])] :
          lc' = [pc |-> "called", cfg |-> lc.cfg, b |-> b, h |-> sh[1], w |-> sh[2],
                 mask_kind |-> mask_kind, vtb |-> vtb, diffs |-> diffs]
    /\ UNCHANGED <<actor, step, triplet, wb, lossSt, wt, rz, pool, pwc, tf, bproc>>

WholeLossReturn ==
    /\ lc.pc = "called"
    /\ \E out \in {LossValue(lc.cfg, lc.mask_kind, lc.vtb, lc.b, lc.h, lc.w, lc.diffs)} :
          lc' = [pc |-> "returned", cfg |-> lc.cfg, b |-> lc.b, h |-> lc.h, w |-> lc.w,
                 mask_kind |-> lc.mask_kind, vtb |-> lc.vtb, diffs |-> lc.diffs,
                 result |-> out]
    /\ UNCHANGED <<actor, step, triplet, wb, lossSt, wt, rz, pool, pwc, tf, bproc>>

InitWholeLoss ==
    /\ actor = ActorNone
    /\ step = StepIdle
    /\ triplet = TripletIdle
    /\ wb = WBIdle
    /\ lossSt = LossIdle
    /\ wt = WeightsIdle
    /\ rz = ResizeIdle
    /\ pool = PoolIdle
    /\ pwc = PWCIdle
    /\ tf = TwoFlowsIdle
    /\ bproc = BatchIdle
    /\ lc \in [pc : {"ready"}, cfg : LossConfigs]

NextWholeLoss ==
    \/ WholeLossCall
    \/ WholeLossReturn

SpecWholeLoss == InitWholeLoss /\ [][NextWholeLoss]_vars

(***************************************************************************)
(* sparse_max_pool                                                         *)
(*                                                                         *)
(* A map is [h, w, val]: val gives the value at (row, column), counted     *)
(* from 0 as the tensor indices are.  The maps are sparse: at most two     *)
(* cells are non-zero.                                                     *)
(***************************************************************************)
SetMax(S) == CHOOSE m \in S : \A x \in S : x <= m

SetMin(S) == CHOOSE m \in S : \A x \in S : m <= x

Cells(h, w) == (0..(h - 1)) \X (0..(w - 1))

\* the non-zero values a sparse map holds
PoolValues == {-3, -1, 2, 5}

\* the map that is 0 except at the cells of pts
SparseMap(h, w, pts) ==
    [h |-> h, w |-> w,
     val |-> [c \in Cells(h, w) |-> IF c \in DOMAIN pts THEN pts[c] ELSE 0]]

SparseMaps(h, w) ==
    { SparseMap(h, w, pts) :
        pts \in UNION { [D -> PoolValues] :
                          D \in { {c1, c2} : c1, c2 \in Cells(h, w) } \cup {{}} } }

\* the rows (or columns) of F.adaptive_max_pool2d's window for output index i:
\* floor(i * in / out) .. ceil((i + 1) * in / out) - 1
PoolWindow(i, in, out) ==
    ((i * in) \div out)..((((i + 1) * in + out - 1) \div out) - 1)

WindowCells(o, h, w, size) ==
    PoolWindow(o[1], h, size[0]) \X PoolWindow(o[2], w, size[1])

\* F.adaptive_max_pool2d(x, size)
adaptive_max_pool2d(x, size) ==
    [h |-> size[0], w |-> size[1],
     val |-> [o \in Cells(size[0], size[1]) |->
                SetMax({ x.val[c] : c \in WindowCells(o, x.h, x.w, size) })]]

\* input * positive, with positive = (input > 0).float()
TimesPositive(x) ==
    [x EXCEPT !.val = [c \in DOMAIN x.val |->
                         x.val[c] * (IF x.val[c] > 0 THEN 1 ELSE 0)]]

\* -input * negative, with negative = (input < 0).float()
MinusTimesNegative(x) ==
    [x EXCEPT !.val = [c \in DOMAIN x.val |->
                         (-x.val[c]) * (IF x.val[c] < 0 THEN 1 ELSE 0)]]

\* sparse_max_pool with the two pooled maps added.
sparse_max_pool_added(input, size) ==
    LET a == adaptive_max_pool2d(TimesPositive(input), size)
        b == adaptive_max_pool2d(MinusTimesNegative(input), size)
    IN  [a EXCEPT !.val = [o \in DOMAIN a.val |-> a.val[o] + b.val[o]]]

sparse_max_pool(input, size) ==
    LET a == adaptive_max_pool2d(TimesPositive(input), size)
        b == adaptive_max_pool2d(MinusTimesNegative(input), size)
    IN  [a EXCEPT !.val = [o \in DOMAIN a.val |-> a.val[o] - b.val[o]]]

PoolBegin ==
    /\ pool.pc = "idle"
    /\ \E h \in 1..MaxMap, w \in 1..MaxMap, oh \in 1..MaxOut, ow \in 1..MaxOut :
         \E input \in SparseMaps(h, w) :
            pool' = [pc |-> "called", input |-> input, size |-> Pair(oh, ow),
                     output |-> input]
    /\ UNCHANGED <<actor, step, triplet, wb, lossSt, wt, rz, pwc, tf, bproc, lc>>

PoolReturn ==
    /\ pool.pc = "called"
    /\ pool' = [pool EXCEPT !.pc = "returned",
                            !.output = sparse_max_pool(pool.input, pool.size)]
    /\ UNCHANGED <<actor, step, triplet, wb, lossSt, wt, rz, pwc, tf, bproc, lc>>

InitPool ==
    /\ actor = ActorNone
    /\ lc = WholeLossIdle
    /\ bproc = BatchIdle
    /\ tf = TwoFlowsIdle
    /\ pwc = PWCIdle
    /\ pool = PoolIdle
    /\ rz = ResizeIdle
    /\ step = StepIdle
    /\ triplet = TripletIdle
    /\ wb = WBIdle
    /\ lossSt = LossIdle
    /\ wt = WeightsIdle

NextPool ==
    \/ PoolBegin
    \/ PoolReturn

SpecPool == InitPool /\ [][NextPool]_vars

(***************************************************************************)
(* PWCNetModel.estimate_flow and estimate_flow_and_confidence_map          *)
(*                                                                         *)
(* The finest estimate of forward() is a constant field (see Flow) at a    *)
(* quarter of the preprocessed size; the images are given by the size of   *)
(* the target.                                                             *)
(***************************************************************************)
\* div=20.0
Div == 20

\* pre_process_data: the side brought to the next multiple of 64
PreprocessedSide(x) == ((x + 63) \div 64) * 64

\* sides of the target image, and values of scaling (1.0, 0.5, 1.5, 2.0)
ImageSides == {2 * k : k \in 1..MaxDim}

Scalings == {<<1, 1>>, <<1, 2>>, <<3, 2>>, <<2, 1>>}

OutputShapes == {OptNone} \cup { Some(Pair(a, b)) : a \in 1..MaxOut, b \in 1..MaxOut }

\* int(x * scaling) for a positive side x
ScaledSide(x, scaling) == (x * scaling[1]) \div scaling[2]

\* if output_shape is None and scaling != 1.0: output_shape = (int(h*s), int(w*s))
DefineOutputShape(output_shape, scaling, h_scale, w_scale) ==
    IF output_shape = OptNone /\ scaling # <<1, 1>>
    THEN Some(Pair(ScaledSide(h_scale, scaling), ScaledSide(w_scale, scaling)))
    ELSE output_shape

\* flow_est_list[-1] of forward() on the preprocessed images
FinestEstimate(uv, h_scale, w_scale) ==
    Flow(PreprocessedSide(h_scale) \div 4, PreprocessedSide(w_scale) \div 4, uv, "forward")

\* mode: channel_first keeps (b, 2, H, W), anything else permutes to (b, H, W, 2)
WithLayout(f, mode) ==
    [h |-> f.h, w |-> f.w, u |-> f.u, v |-> f.v,
     layout |-> IF mode = "channel_first" THEN "b2HW" ELSE "bHW2"]

\* estimate_flow (lines 392-416)
estimate_flow(uv, h_scale, w_scale, output_shape_given, scaling, mode) ==
    LET output_shape == DefineOutputShape(output_shape_given, scaling, h_scale, w_scale)
        flow0 == FinestEstimate(uv, h_scale, w_scale)
        flow1 == [flow0 EXCEPT !.u = RatScale(@, Div, 1), !.v = RatScale(@, Div, 1)]
        \* both branches interpolate to size=(h_scale, w_scale)
        flow2 == Interpolate(flow1, Pair(h_scale, w_scale))
        flow3 == ScaleChannels(flow2, w_scale, PreprocessedSide(w_scale),
                               h_scale, PreprocessedSide(h_scale))
        flow4 == IF output_shape # OptNone
                 THEN ScaleChannels(flow3, output_shape.q[1], w_scale,
                                    output_shape.q[0], h_scale)
                 ELSE flow3
    IN  WithLayout(flow4, mode)

\* estimate_flow_and_confidence_map (lines 437-475): the flow it returns
estimate_flow_and_confidence_map(uv, h_scale, w_scale, output_shape_given, scaling, mode) ==
    LET output_shape == DefineOutputShape(output_shape_given, scaling, h_scale, w_scale)
        flow0 == FinestEstimate(uv, h_scale, w_scale)
        size == IF output_shape # OptNone THEN output_shape.q ELSE Pair(h_scale, w_scale)
        flow2 == Interpolate(flow0, size)
        flow3 == ScaleChannels(flow2, w_scale, PreprocessedSide(w_scale),
                               h_scale, PreprocessedSide(h_scale))
        flow4 == IF output_shape # OptNone
                 THEN ScaleChannels(flow3, output_shape.q[1], w_scale,
                                    output_shape.q[0], h_scale)
                 ELSE flow3
    IN  WithLayout(flow4, mode)

PWCCall ==
    /\ pwc.pc = "idle"
    /\ \E method \in {"estimate_flow", "estimate_flow_and_confidence_map"},
          h \in ImageSides, w \in ImageSides, uv \in FlowValues,
          output_shape \in OutputShapes, scaling \in Scalings,
          mode \in {"channel_first", "channel_last"} :
          pwc' = [pc |-> "called", method |-> method, h |-> h, w |-> w, uv |-> uv,
                  output_shape |-> output_shape, scaling |-> scaling, mode |-> mode,
                  flow_est |-> WithLayout(FinestEstimate(uv, h, w), "channel_first")]
    /\ UNCHANGED <<actor, step, triplet, wb, lossSt, wt, rz, pool, tf, bproc, lc>>

PWCReturn ==
    /\ pwc.pc = "called"
    /\ pwc' = [pwc EXCEPT
                 !.pc = "returned",
                 !.flow_est =
                     IF pwc.method = "estimate_flow"
                     THEN estimate_flow(pwc.uv, pwc.h, pwc.w, pwc.output_shape,
                                        pwc.scaling, pwc.mode)
                     ELSE estimate_flow_and_confidence_map(pwc.uv, pwc.h, pwc.w,
                              pwc.output_shape, pwc.scaling, pwc.mode)]
    /\ UNCHANGED <<actor, step, triplet, wb, lossSt, wt, rz, pool, tf, bproc, lc>>

InitPWC ==
    /\ actor = ActorNone
    /\ lc = WholeLossIdle
    /\ bproc = BatchIdle
    /\ tf = TwoFlowsIdle
    /\ pwc = PWCIdle
    /\ pool = PoolIdle
    /\ rz = ResizeIdle
    /\ step = StepIdle
    /\ triplet = TripletIdle
    /\ wb = WBIdle
    /\ lossSt = LossIdle
    /\ wt = WeightsIdle

NextPWC ==
    \/ PWCCall
    \/ PWCReturn

SpecPWC == InitPWC /\ [][NextPWC]_vars

(***************************************************************************)
(* Claims about the actor (SpecActor).                                     *)
(***************************************************************************)

\* C1: an actor whose name_of_loss is not exactly one of the three recognized
\* names is refused by the constructor, so no step ever runs on such an actor.
C1_UnrecognizedNameNeverSteps ==
    step.pc # "idle" => actor.name_of_loss \in RecognizedNames

\* C2: at the end of a step of an actor with a recognized name, the returned
\* loss is the supervised objective alone ('warp_supervision', no composition
\* computed), the W-bipath loss alone ('w_bipath', supervised objective not
\* evaluated), or the two terms weighted by
\* weights_self_supervised_and_unsupervised; stats['Loss/total'] is its value.
C2_LossSelectedByName ==
    (step.pc = "done" /\ actor.name_of_loss \in RecognizedNames) =>
        /\ HasKey(step.stats, "Loss/total")
        /\ step.stats["Loss/total"] = step.loss.val
        /\ actor.name_of_loss = WARP_SUPERVISION =>
              /\ step.loss = Tensor(Plain(step.objSS), TRUE)
              /\ step.comp_evals = 0
        /\ actor.name_of_loss = W_BIPATH =>
              /\ step.loss = Tensor(Plain(step.objUn), TRUE)
              /\ step.sup_evals = 0
        /\ actor.name_of_loss = WARP_SUPERVISION_AND_W_BIPATH =>
              LET f == AppliedFactors(Tensor(Plain(step.objSS), TRUE), Tensor(Plain(step.objUn), TRUE),
                                      actor.loss_weight, actor.apply_constant_flow_weights)
              IN  /\ step.loss.val = <<Term(step.objUn, f.u_l_w), Term(step.objSS, f.s_l_w)>>
                  /\ step.comp_evals = 1
                  /\ step.sup_evals >= 1

\* C2 witness: a finished step of the combined loss whose two terms differ.
C2_Witness ==
    /\ step.pc = "done"
    /\ actor.name_of_loss = WARP_SUPERVISION_AND_W_BIPATH
    /\ step.objUn > step.objSS
    /\ step.objSS > 0
    /\ step.stats["Loss/total"] = step.loss.val

\* A step that is past its batch-processing stage, on a batch-processing
\* object with apply_mask_zero_borders whose mini-batch has no
\* 'mask_zero_borders' field.
ZeroBordersRequestedButAbsent ==
    /\ step.pc \notin {"idle", "batch"}
    /\ actor.batch_processing.apply_mask_zero_borders
    /\ ~step.has_mask_zero_borders

\* The step ended in batch processing with a ValueError: no stage of the step
\* ran, no pyramid, no forward pass of the network, no objective evaluated.
RaisedValueErrorInBatchProcessing ==
    /\ step.pc = "raised"
    /\ step.error = "ValueError"
    /\ step.order = <<>>
    /\ step.npyr = 0
    /\ step.nfwd = 0
    /\ step.sup_evals = 0
    /\ step.comp_evals = 0

\* C12 as stated: whenever apply_mask_zero_borders is set and the mini-batch
\* has no 'mask_zero_borders' field, batch processing raises ValueError before
\* any forward pass or loss computation of the step.
C12_MissingZeroBordersAlwaysRaises ==
    ZeroBordersRequestedButAbsent => RaisedValueErrorInBatchProcessing

\* C12 amended: the ValueError is raised when, in addition, no mask_strategy is
\* configured; with a mask_strategy the mask comes from get_mask, the field is
\* never looked up and the step goes on.
C12_MissingZeroBordersRaisesWithoutStrategy ==
    ZeroBordersRequestedButAbsent =>
        IF actor.batch_processing.mask_strategy = "none"
        THEN RaisedValueErrorInBatchProcessing
        ELSE step.error # "ValueError" /\ step.mask = "get_mask"

\* C12 witness: a step that raised ValueError in batch processing because the
\* zero-border mask was requested and is absent.
C12_Witness ==
    /\ ZeroBordersRequestedButAbsent
    /\ actor.batch_processing.mask_strategy = "none"
    /\ RaisedValueErrorInBatchProcessing

\* The stages of a step in the order of the code; a stage that is skipped
\* leaves no entry in step.order.
StageRank ==
    [k \in {"batch", "pyramid", "flows", "loss_warp_sup", "loss_w_bipath", "select",
            "validation", "plot"} |->
        CASE k = "batch" -> 1 [] k = "pyramid" -> 2 [] k = "flows" -> 3
          [] k = "loss_warp_sup" -> 4 [] k = "loss_w_bipath" -> 5 [] k = "select" -> 6
          [] k = "validation" -> 7 [] k = "plot" -> 8]

\* The stages run so far came in the fixed order, batch construction first,
\* the pyramids (three, or none without the attribute) before the flows, and
\* at most 4 forward passes of the network were made.
StagesInOrder ==
    step.pc # "idle" =>
        /\ \A i \in 1..Len(step.order) :
              /\ i = 1 => step.order[i] = "batch"
              /\ i > 1 => StageRank[step.order[i - 1]] < StageRank[step.order[i]]
        /\ step.npyr \in {0, 3}
        /\ step.npyr = 3 <=> (step.has_pyramid /\ Len(step.order) >= 2)
        /\ Len(step.order) < 3 => step.nfwd = 0
        /\ step.nfwd <= 4

SameStep == step.pc # "idle" /\ step'.pc \notin {"idle", "batch"}

\* C21 as stated: the stages come in the fixed order, and all the flows are
\* estimated before any loss is computed: no forward pass of the network
\* follows an evaluation of the objective in the same step.
C21_FlowsThenLoss ==
    /\ []StagesInOrder
    /\ [][ (SameStep /\ step.sup_evals + step.comp_evals > 0) =>
              step'.nfwd = step.nfwd ]_vars

\* C21 amended: the stages come in the fixed order with at most 4 forward
\* passes, and the only loss computed before a forward pass is the supervised
\* objective on the direct estimate, which a name holding both
\* 'warp_supervision' and 'w_bipath' evaluates before the two estimates of the
\* composition are computed.
C21_FlowsThenLossButSupervisedFirst ==
    /\ []StagesInOrder
    /\ [][ (SameStep /\ step.sup_evals + step.comp_evals > 0
                     /\ step'.nfwd # step.nfwd) =>
              /\ StrContains(WARP_SUPERVISION, actor.name_of_loss)
              /\ StrContains(W_BIPATH, actor.name_of_loss)
              /\ step.sup_evals = 1
              /\ step.comp_evals = 0
              /\ step'.comp_evals = 1
              /\ step'.nfwd = step.nfwd + 2 ]_vars

\* C21 witness: a validation step of the combined loss on a network with a
\* pyramid: three pyramids, four forward passes, every stage in order.
C21_Witness ==
    /\ step.pc = "done"
    /\ ~step.training
    /\ actor.name_of_loss = WARP_SUPERVISION_AND_W_BIPATH
    /\ step.npyr = 3
    /\ step.nfwd = 4
    /\ Len(step.order) >= 6
    /\ StagesInOrder

\* every key the validation branch can write
ValidationKeys ==
    { e[1] : e \in ValidationEntries(TRUE, "any") } \cup {"best_value"}

Resolutions == 0..(NbrEstimates - 1)

DIRECT == "estimated_flow_target_prime_to_target_directly"

COMPOSED == "estimated_flow_target_prime_to_target_through_composition"

T2S == "estimated_flow_target_to_source"

\* a step of an actor with a recognized name that is past its validation branch
AfterValidation ==
    step.pc \in {"plot", "done"} /\ actor.name_of_loss \in RecognizedNames

\* What C22 states apart from the composition entries: nothing is written in
\* training; in validation the direct EPE per resolution, the target-to-source
\* EPE and three PCK per resolution exactly when the ground truth is in the
\* batch, index 0 being the last element of the list; best_value is the
\* entry of index 0 of the target-to-source EPE, or of the composition EPE.
ValidationStatsWritten ==
    /\ step.training => DOMAIN step.stats \cap ValidationKeys = {}
    /\ ~step.training =>
          /\ \A i \in Resolutions :
                /\ HasKey(step.stats, KeyDirect(i))
                /\ step.stats[KeyDirect(i)] =
                      [metric |-> "EPE", estimate |-> DIRECT, element |-> NbrEstimates - i]
                /\ HasKey(step.stats, KeyComposition(i))
                /\ step.stats[KeyComposition(i)].metric = "EPE"
                /\ step.stats[KeyComposition(i)].element = NbrEstimates - i
                /\ HasKey(step.stats, KeyT2S(i)) <=> step.has_gt
                /\ step.has_gt =>
                      step.stats[KeyT2S(i)] =
                          [metric |-> "EPE", estimate |-> T2S, element |-> NbrEstimates - i]
                /\ \A j \in 1..3 :
                      /\ HasKey(step.stats, KeyPCK(Thresholds[j], i)) <=> step.has_gt
                      /\ step.has_gt =>
                            step.stats[KeyPCK(Thresholds[j], i)].estimate = T2S
          /\ HasKey(step.stats, "best_value")
          /\ step.stats["best_value"] =
                IF step.has_gt THEN step.stats[KeyT2S(0)]
                ELSE step.stats[KeyComposition(0)]
          /\ step.stats["best_value"].element = NbrEstimates

\* C22 as stated: for each of the three names the composition entries are the
\* EPE of the composed estimate.
C22_CompositionStatsOfComposedEstimate ==
    AfterValidation =>
        /\ ValidationStatsWritten
        /\ ~step.training =>
              \A i \in Resolutions : step.stats[KeyComposition(i)].estimate = COMPOSED

\* C22 amended: the composition entries are the EPE of the composed estimate
\* for the two names that hold 'w_bipath'; for 'warp_supervision' no
\* composition exists and these entries (and best_value without ground
\* truth) are the EPE of the direct estimate once more.
C22_CompositionStatsOfWhatOutputHolds ==
    AfterValidation =>
        /\ ValidationStatsWritten
        /\ ~step.training =>
              \A i \in Resolutions :
                  step.stats[KeyComposition(i)].estimate =
                      IF actor.name_of_loss = WARP_SUPERVISION THEN DIRECT ELSE COMPOSED

\* C22 witness: a finished validation step of 'w_bipath' on a batch with the
\* target-to-source ground truth: best_value is the EPE of the last of several
\* target-to-source estimates.
C22_Witness ==
    /\ step.pc = "done"
    /\ ~step.training
    /\ step.has_gt
    /\ actor.name_of_loss = W_BIPATH
    /\ NbrEstimates > 1
    /\ step.stats["best_value"] =
          [metric |-> "EPE", estimate |-> T2S, element |-> NbrEstimates]
    /\ step.stats[KeyComposition(0)].estimate = COMPOSED

\* C30: on an actor the constructor accepted, no step reads a flow estimate, a
\* composition output or a loss term that was not computed earlier in the
\* same step.
C30_NoReadOfUncomputedValue ==
    step.pc # "idle" => step.uncomputed_read = "none"

(***************************************************************************)
(* Claims about the adaptive balancing (SpecWeights).                      *)
(***************************************************************************)
\* The tolerance of "approximately": 1/1000.
Tol == <<1, 1000>>

\* q = <<n, m>> is within Tol of 1.
ApproxOne(q) == Abs(q[1] - q[2]) * Tol[1] <= q[2] \div Tol[2]

\* C10 as stated: with adaptive weights and equal losses, both applied factors
\* are approximately 1, whatever the two configured weights.
C10_EqualLossesBothFactorsOne ==
    (wt.pc = "returned" /\ ~wt.apply_constant_weights /\ Num(wt.loss_su) = Num(wt.loss_un)) =>
        /\ ApproxOne(wt.factors.u_l_w)
        /\ ApproxOne(wt.factors.s_l_w)

\* C10 amended: with adaptive weights and equal losses L, s_l_w is exactly 1;
\* for L > 0 (well above 1e-8) u_l_w is approximately 1 exactly when the two
\* configured weights are equal, and for L = 0 u_l_w is 0.
C10_EqualLossesFactors ==
    (wt.pc = "returned" /\ ~wt.apply_constant_weights /\ Num(wt.loss_su) = Num(wt.loss_un)) =>
        /\ wt.factors.s_l_w = One
        /\ Num(wt.loss_su) > 0 =>
              (ApproxOne(wt.factors.u_l_w) <=>
                  wt.loss_weight.warp_supervision = wt.loss_weight.w_bipath)
        /\ Num(wt.loss_su) = 0 => wt.factors.u_l_w[1] = 0

\* C10 witness: equal positive losses under equal non-default weights.
C10_Witness ==
    /\ wt.pc = "returned"
    /\ ~wt.apply_constant_weights
    /\ Num(wt.loss_su) = Num(wt.loss_un)
    /\ Num(wt.loss_su) > 0
    /\ wt.loss_weight.warp_supervision = MaxWeight
    /\ wt.loss_weight.w_bipath = MaxWeight
    /\ ApproxOne(wt.factors.u_l_w)
    /\ ApproxOne(wt.factors.s_l_w)

\* The call has returned from the adaptive branch on two positive losses.
AdaptiveOnPositive ==
    /\ wt.pc = "returned"
    /\ ~wt.apply_constant_weights
    /\ Num(wt.loss_su) > 0
    /\ Num(wt.loss_un) > 0

\* q = <<n, m>> is at least 1.
AtLeastOne(q) == q[1] >= q[2]

\* C11 as stated: for positive losses and weights, the term with the larger
\* loss keeps factor 1 and the factor of the term with the smaller loss is at
\* least 1.
C11_SmallerTermScaledUp ==
    AdaptiveOnPositive =>
        /\ Num(wt.loss_un) > Num(wt.loss_su) =>
              (wt.factors.u_l_w = One /\ AtLeastOne(wt.factors.s_l_w))
        /\ Num(wt.loss_su) > Num(wt.loss_un) =>
              (wt.factors.s_l_w = One /\ AtLeastOne(wt.factors.u_l_w))

\* C11 amended: the term with the larger loss keeps factor 1 (the supervised
\* one on a tie); the factor of the other term is at least 1 exactly when
\* (larger loss) * (its own weight) >= (its loss + 1e-8) * (weight of the
\* larger term), so it is below 1 when its configured weight is low enough.
C11_SmallerTermScaledByRatio ==
    AdaptiveOnPositive =>
        LET ws == wt.loss_weight.warp_supervision
            wbp == wt.loss_weight.w_bipath
            su == Num(wt.loss_su)
            un == Num(wt.loss_un)
        IN  IF un > su
            THEN /\ wt.factors.u_l_w = One
                 /\ AtLeastOne(wt.factors.s_l_w) <=>
                        (un * EpsWeightsDen * ws >= (su * EpsWeightsDen + 1) * wbp)
            ELSE /\ wt.factors.s_l_w = One
                 /\ AtLeastOne(wt.factors.u_l_w) <=>
                        (su * EpsWeightsDen * wbp >= (un * EpsWeightsDen + 1) * ws)

\* C11 witness: the unsupervised loss is the larger one, the supervised weight
\* is the lower one, and the supervised term is scaled by a factor below 1.
C11_Witness ==
    /\ AdaptiveOnPositive
    /\ Num(wt.loss_un) > Num(wt.loss_su)
    /\ wt.loss_weight.warp_supervision < wt.loss_weight.w_bipath
    /\ wt.factors.u_l_w = One
    /\ ~AtLeastOne(wt.factors.s_l_w)

\* p * q for two rationals, reduced before the products are formed
RatMul(p, q) ==
    LET pr == Rat(p[1], p[2])
        qr == Rat(q[1], q[2])
        a == Rat(pr[1], qr[2])
        b == Rat(qr[1], pr[2])
    IN  <<a[1] * b[1], a[2] * b[2]>>

\* (weighted supervised term / weighted unsupervised term) divided by
\* (loss_weight['warp_supervision'] / loss_weight['w_bipath']), for an
\* unsupervised term other than 0:
\* (s_l_w / u_l_w) * (w_bipath / warp_supervision) * (loss_su / loss_un)
WeightedRatioOverConfigured ==
    LET s == wt.factors.s_l_w
        u == wt.factors.u_l_w
        factors == RatMul(s, <<u[2], u[1]>>)
        weights == <<wt.loss_weight.w_bipath, wt.loss_weight.warp_supervision>>
    IN  RatMul(RatMul(factors, weights), <<Num(wt.loss_su), Num(wt.loss_un)>>)

\* The weighted unsupervised term loss_un * u_l_w is not 0.
WeightedUnsupervisedNonZero == Num(wt.loss_un) > 0 /\ wt.factors.u_l_w[1] > 0

\* stats['Loss/total'] is the sum of the two weighted terms written to
\* stats['Loss_w_bipath/total'] and stats['Loss_warp_sup/total'], and is the
\* value of the returned loss.
StatsTotalIsSumOfTerms ==
    LET st == wt.result.stats
    IN  /\ st["Loss_w_bipath/total"] = <<Term(Num(wt.loss_un), wt.factors.u_l_w)>>
        /\ st["Loss_warp_sup/total"] = <<Term(Num(wt.loss_su), wt.factors.s_l_w)>>
        /\ st["Loss/total"] = st["Loss_w_bipath/total"] \o st["Loss_warp_sup/total"]
        /\ st["Loss/total"] = Item(wt.result.loss)

\* With constant weights the two factors are the two configured constants.
ConstantWeightsApplied ==
    wt.apply_constant_weights =>
        /\ wt.factors.u_l_w = <<wt.loss_weight.w_bipath_constant, 1>>
        /\ wt.factors.s_l_w = <<wt.loss_weight.warp_supervision_constant, 1>>

\* C29 as stated (equality read up to the tolerance Tol, which absorbs the
\* guard 1e-8): Loss/total is the sum of the two weighted terms and the
\* returned loss; with adaptive weights the weighted supervised term divided
\* by the weighted unsupervised term is warp_supervision / w_bipath, whichever
\* loss is larger; with constant weights the factors are the constants.
C29_WeightedTermsInConfiguredRatio ==
    wt.pc = "returned" =>
        /\ StatsTotalIsSumOfTerms
        /\ ConstantWeightsApplied
        /\ ~wt.apply_constant_weights =>
              (WeightedUnsupervisedNonZero /\ ApproxOne(WeightedRatioOverConfigured))

\* C29 amended: the statistics and the constant weights as stated; with
\* adaptive weights and two positive losses the quotient of the weighted
\* terms is warp_supervision / w_bipath times L_su / (L_su + 1e-8) when the
\* unsupervised loss is the larger one and times (L_un + 1e-8) / L_un
\* otherwise; when one loss is 0 its weighted term is 0, the other term keeps
\* factor 1 and the quotient is 0 or undefined.
C29_WeightedTermsInRatioWhenPositive ==
    wt.pc = "returned" =>
        LET su == Num(wt.loss_su)
            un == Num(wt.loss_un)
        IN  /\ StatsTotalIsSumOfTerms
            /\ ConstantWeightsApplied
            /\ (~wt.apply_constant_weights /\ su > 0 /\ un > 0) =>
                  /\ WeightedUnsupervisedNonZero
                  /\ ApproxOne(WeightedRatioOverConfigured)
                  /\ WeightedRatioOverConfigured =
                        IF un > su
                        THEN <<su * EpsWeightsDen, su * EpsWeightsDen + 1>>
                        ELSE <<un * EpsWeightsDen + 1, un * EpsWeightsDen>>
            /\ (~wt.apply_constant_weights /\ su = 0 /\ un > 0) =>
                  /\ wt.factors.u_l_w = One
                  /\ WeightedRatioOverConfigured[1] = 0
            /\ (~wt.apply_constant_weights /\ un = 0) =>
                  /\ wt.factors.s_l_w = One
                  /\ ~WeightedUnsupervisedNonZero

\* C29 witness: adaptive weights with unequal configured weights on two
\* positive losses, the supervised one the larger; the quotient of the
\* weighted terms is within the tolerance of the configured ratio.
C29_Witness ==
    /\ wt.pc = "returned"
    /\ ~wt.apply_constant_weights
    /\ Num(wt.loss_su) > Num(wt.loss_un)
    /\ Num(wt.loss_un) > 0
    /\ wt.loss_weight.warp_supervision # wt.loss_weight.w_bipath
    /\ wt.factors.u_l_w # One
    /\ ApproxOne(WeightedRatioOverConfigured)

(***************************************************************************)
(* Claims about the triplet constructor (SpecTriplet).                     *)
(***************************************************************************)

\* C3: when the crop size is at least the image size along a dimension, the
\* center crop keeps the full extent of the image in that dimension: the slice
\* taken starts at offset 0 and ends at the image size.
C3_OversizedCropKeepsFullImage ==
    triplet.pc = "resize" =>
        /\ triplet.cfg.crop_size[0] >= triplet.h =>
              triplet.crop.ys = [lo |-> 0, hi |-> triplet.h]
        /\ triplet.cfg.crop_size[1] >= triplet.w =>
              triplet.crop.xs = [lo |-> 0, hi |-> triplet.w]

\* C4: with compute_mask_zero_borders, mask_zero_borders is the border mask
\* itself exactly when the fraction of valid pixels of that mask (over its
\* b * h * w pixels) is below min_percent_valid_corr, for every batch size.
C4_FallbackExactlyBelowValidFraction ==
    (triplet.pc = "package" /\ triplet.cfg.compute_mask_zero_borders) =>
        LET m == triplet.mask_gt
            p == triplet.cfg.min_percent_valid_corr
        IN  (triplet.mask_source = "mask_gt") <=>
                (m.sum * p[2] < m.b * m.h * m.w * p[1])

\* C7: whenever the triplet constructor has brought a flow from size (H, W) to
\* size (H', W'), channel 0 was multiplied by W'/W and channel 1 by H'/H.
C7_ChannelsScaledByOwnRatio ==
    /\ triplet.pc = "crop" =>
          /\ triplet.flow_gt.u =
                 RatScale(triplet.generated.u, triplet.flow_gt.w, triplet.generated.w)
          /\ triplet.flow_gt.v =
                 RatScale(triplet.generated.v, triplet.flow_gt.h, triplet.generated.h)
    /\ triplet.pc = "masks" =>
          /\ triplet.flow_gt_resized.u =
                 RatScale(triplet.cropped.u, triplet.flow_gt_resized.w, triplet.cropped.w)
          /\ triplet.flow_gt_resized.v =
                 RatScale(triplet.cropped.v, triplet.flow_gt_resized.h, triplet.cropped.h)

SizeOf(x) == Pair(x.h, x.w)

TripletFields ==
    {"source_image", "target_image", "target_image_prime", "flow_map",
     "correspondence_mask"}

CropFitsImage ==
    triplet.cfg.crop_size[0] <= triplet.h /\ triplet.cfg.crop_size[1] <= triplet.w

\* C19: in the mini-batch returned by the triplet constructor the three images,
\* 'flow_map' and 'correspondence_mask' have one common spatial size, whatever
\* the image size, crop_size and output_size; when crop_size is at most the
\* image size in both dimensions, that size is output_size.
C19_FieldsShareSpatialSize ==
    triplet.pc = "returned" =>
        /\ \A k \in TripletFields :
              /\ HasKey(triplet.mini_batch, k)
              /\ SizeOf(triplet.mini_batch[k]) = SizeOf(triplet.mini_batch["source_image"])
        /\ CropFitsImage =>
              SizeOf(triplet.mini_batch["flow_map"]) = triplet.cfg.output_size

\* C19 witness: a returned call whose crop is larger than the image and equal
\* to output_size: the common size is neither crop_size nor output_size.
C19_Witness ==
    /\ triplet.pc = "returned"
    /\ triplet.cfg.crop_size[1] > triplet.w
    /\ triplet.cfg.crop_size = triplet.cfg.output_size
    /\ SizeOf(triplet.mini_batch["flow_map"]) # triplet.cfg.output_size
    /\ SizeOf(triplet.mini_batch["flow_map"]) = SizeOf(triplet.mini_batch["target_image_prime"])

\* C20: the returned mini-batch holds the synthetic flow and its border mask
\* under 'flow_map' and 'correspondence_mask'; it holds
\* 'flow_map_target_to_source' and 'correspondence_mask_target_to_source',
\* taken from the 'flow_map' and 'correspondence_mask' the input had and of the
\* size of the images, exactly when the input had a 'flow_map'; it holds
\* 'mask_zero_borders' exactly when compute_mask_zero_borders is set.
C20_PackagedFields ==
    triplet.pc = "returned" =>
        LET mb == triplet.mini_batch
        IN  /\ mb["flow_map"].src = "synthetic_flow_generator"
            /\ mb["correspondence_mask"].src = "create_border_mask"
            /\ HasKey(mb, "flow_map_target_to_source") <=> triplet.has_flow_map
            /\ HasKey(mb, "correspondence_mask_target_to_source") <=> triplet.has_flow_map
            /\ triplet.has_flow_map =>
                  /\ mb["flow_map_target_to_source"].src = "mini_batch.flow_map"
                  /\ mb["correspondence_mask_target_to_source"].src =
                        "mini_batch.correspondence_mask"
                  /\ SizeOf(mb["flow_map_target_to_source"]) = SizeOf(mb["source_image"])
                  /\ SizeOf(mb["correspondence_mask_target_to_source"]) =
                        SizeOf(mb["source_image"])
            /\ HasKey(mb, "mask_zero_borders") <=> triplet.cfg.compute_mask_zero_borders

\* C20 witness: a returned call on a batch that had a 'flow_map', resized to an
\* output_size other than crop_size, without 'mask_zero_borders'.
C20_Witness ==
    /\ triplet.pc = "returned"
    /\ triplet.has_flow_map
    /\ triplet.cfg.output_size # triplet.cfg.crop_size
    /\ ~triplet.cfg.compute_mask_zero_borders
    /\ ~HasKey(triplet.mini_batch, "mask_zero_borders")
    /\ triplet.mini_batch["flow_map_target_to_source"].src = "mini_batch.flow_map"
    /\ triplet.mini_batch["flow_map"].src = "synthetic_flow_generator"

(***************************************************************************)
(* Claims about the point-wise losses (SpecLoss).                          *)
(***************************************************************************)
\* The pixels of a sample that count: finite error and selected by the caller.
ValidPixels(sample) ==
    {i \in 1..Len(sample) : sample[i].d.cls = "fin" /\ MaskBit(sample[i])}

RECURSIVE ValidErrorSum(_, _, _)
\* The sum of the errors of the valid pixels among the first k pixels.
ValidErrorSum(kind, sample, k) ==
    IF k = 0 THEN 0
    ELSE ValidErrorSum(kind, sample, k - 1) +
         (IF k \in ValidPixels(sample) THEN PointwiseError(kind, sample[k].d).x ELSE 0)

\* Two terms value / (n + eps * 1e-6) differ by at most 1e-6 of the second:
\* cross-multiplied, the difference is x + y * 1e-6 with x = 0 and |y| at most
\* the second value times the first n.
WithinEps(A, B) ==
    LET x == A.value.x * B.norm_const.n - B.value.x * A.norm_const.n
        y == A.value.x * B.norm_const.eps - B.value.x * A.norm_const.eps
    IN  x = 0 /\ Abs(y) <= B.value.x * A.norm_const.n

\* C8: each sample adds (sum of its valid-pixel errors) * (h * w) / (number of
\* its valid pixels + 1e-6); two samples with the same error per valid pixel and
\* masks of different non-zero size add the same amount (up to 1e-6); the total
\* is divided by the batch size exactly when sum_normalized is set.
C8_PerSampleNormalization ==
    /\ (lossSt.pc = "loop" /\ lossSt.bb > 0) =>
          LET t == lossSt.L[lossSt.bb]
              npix == lossSt.h * lossSt.w
          IN  /\ t.value =
                     Fin(ValidErrorSum(lossSt.cfg.kind, lossSt.sample, npix) * npix)
              /\ t.norm_const =
                     [num |-> npix, n |-> Cardinality(ValidPixels(lossSt.sample)),
                      eps |-> 1]
    /\ lossSt.pc = "returned" =>
          /\ Len(lossSt.result.terms) = lossSt.b
          /\ lossSt.result.div = IF lossSt.cfg.sum_normalized THEN lossSt.b ELSE 1
          /\ \A i, j \in 1..lossSt.b :
                LET A == lossSt.result.terms[i]
                    B == lossSt.result.terms[j]
                IN  (/\ A.n_valid > 0
                     /\ B.n_valid > 0
                     /\ A.sum.x * B.n_valid = B.sum.x * A.n_valid)
                    => WithinEps(A, B)

\* C8 witness: a normalized batch of two samples with the same error per valid
\* pixel, two valid pixels in the first and one in the second.
C8_Witness ==
    /\ lossSt.pc = "returned"
    /\ lossSt.cfg.sum_normalized
    /\ lossSt.b = 2
    /\ lossSt.result.div = 2
    /\ lossSt.result.terms[1].n_valid = 2
    /\ lossSt.result.terms[2].n_valid = 1
    /\ lossSt.result.terms[2].sum.x > 0
    /\ lossSt.result.terms[1].sum.x = 2 * lossSt.result.terms[2].sum.x
    /\ WithinEps(lossSt.result.terms[1], lossSt.result.terms[2])

\* C9: the summed error of a sample is never NaN or Inf, the denominator of
\* its normalization is never zero, and a sample without a valid pixel adds
\* exactly zero.
C9_NoValidPixelAddsZero ==
    (lossSt.pc = "loop" /\ lossSt.bb > 0) =>
        LET t == lossSt.L[lossSt.bb]
        IN  /\ t.sum.cls = "fin"
            /\ ~(t.norm_const.n = 0 /\ t.norm_const.eps = 0)
            /\ ValidPixels(lossSt.sample) = {} => t.value = Fin(0)

\* C9 witness: a sample of two pixels, one NaN and one Inf, both selected by
\* the caller's mask, has added exactly zero.
C9_Witness ==
    /\ lossSt.pc = "loop"
    /\ lossSt.bb > 0
    /\ Len(lossSt.sample) = 2
    /\ \E i, j \in 1..2 :
          /\ lossSt.sample[i].d.cls = "nan"
          /\ lossSt.sample[j].d.cls = "inf"
    /\ \A i \in 1..2 : MaskBit(lossSt.sample[i])
    /\ lossSt.L[lossSt.bb].n_valid = 0
    /\ lossSt.L[lossSt.bb].value = Fin(0)

(***************************************************************************)
(* Claims about the resizing of flow fields (SpecResize).                  *)
(***************************************************************************)
\* The channels of rz.out are those of rz.flow times wn/wd and hn/hd.
ChannelsTimes(wn, wd, hn, hd) ==
    /\ rz.out.u = RatScale(rz.flow.u, wn, wd)
    /\ rz.out.v = RatScale(rz.flow.v, hn, hd)

\* C6 as stated: every resize of a flow from (H, W) to (H', W') multiplies
\* channel 0 by W'/W and channel 1 by H'/H.
C6_EveryResizeRescales ==
    rz.pc = "resized" =>
        ChannelsTimes(rz.out.w, rz.flow.w, rz.out.h, rz.flow.h)

\* C6 amended: only the triplet constructor rescales when it resizes (by the
\* size ratios for the generated flow, by output_size / crop_size for the
\* cropped flows); get_cyclic_consistency_mask and GetBaseNetPredictions
\* resize with the values unchanged, and so do realEPE and real_metrics
\* unless both ratios are given, which are then the two factors.
C6_WhichResizesRescale ==
    rz.pc = "resized" =>
        CASE rz.site = "triplet_generated_flow" ->
                 /\ rz.out.h = rz.size[0] /\ rz.out.w = rz.size[1]
                 /\ ChannelsTimes(rz.out.w, rz.flow.w, rz.out.h, rz.flow.h)
          [] rz.site = "triplet_output_size" ->
                 IF rz.size.output_size # rz.size.crop_size
                 THEN /\ rz.out.h = rz.size.output_size[0]
                      /\ rz.out.w = rz.size.output_size[1]
                      /\ ChannelsTimes(rz.size.output_size[1], rz.size.crop_size[1],
                                       rz.size.output_size[0], rz.size.crop_size[0])
                 ELSE rz.out = rz.flow
          [] rz.site \in {"get_cyclic_consistency_mask", "GetBaseNetPredictions"} ->
                 /\ rz.out.h = rz.size[0] /\ rz.out.w = rz.size[1]
                 /\ ChannelsTimes(1, 1, 1, 1)
          [] rz.site \in {"realEPE", "real_metrics"} ->
                 /\ rz.out.h = rz.size[0] /\ rz.out.w = rz.size[1]
                 /\ IF rz.ratio_x.some /\ rz.ratio_y.some
                    THEN ChannelsTimes(rz.ratio_x.q[1], rz.ratio_x.q[2],
                                       rz.ratio_y.q[1], rz.ratio_y.q[2])
                    ELSE ChannelsTimes(1, 1, 1, 1)

\* C6 witness: get_cyclic_consistency_mask has resized a synthetic flow to
\* another width and height and its values are the same as before.
C6_Witness ==
    /\ rz.pc = "resized"
    /\ rz.site = "get_cyclic_consistency_mask"
    /\ rz.out.w # rz.flow.w
    /\ rz.out.h # rz.flow.h
    /\ rz.out.u = rz.flow.u
    /\ rz.out.v = rz.flow.v

(***************************************************************************)
(* Claims about the composition engine (SpecWBipath).                      *)
(***************************************************************************)
\* The mask that the same call gives for the level just processed when the
\* object is configured without the cyclic-consistency check.
MaskWithoutCyclic ==
    LevelOutputs([wb.cfg EXCEPT !.compute_cyclic_consistency = FALSE],
                 wb.flow_map, wb.mask_used_given, wb.level).mask

\* C5: at every level and pixel, the training mask computed with
\* compute_cyclic_consistency=True is set only where the training mask computed
\* from the same inputs with compute_cyclic_consistency=False is set.
C5_CyclicMaskOnlyRemoves ==
    (wb.pc = "levels" /\ wb.nbr > 0 /\ wb.cfg.compute_cyclic_consistency) =>
        (wb.masks[wb.nbr] => MaskWithoutCyclic)

\* C5 witness: at the second level of a call, the cyclic check has removed a
\* pixel that is valid without it.
C5_Witness ==
    /\ wb.pc = "levels"
    /\ wb.nbr = 2
    /\ wb.cfg.compute_cyclic_consistency
    /\ MaskWithoutCyclic
    /\ ~wb.masks[wb.nbr]
    /\ ~wb.mask_cyclic_list[wb.nbr]

COMPOSITION == "estimated_flow_target_prime_to_target_through_composition"

\* C14: a returned call on N levels (N = 1 for a tensor that is not a list)
\* gives N composed flows and N training masks, the i-th from the i-th input
\* level; the output holds 'mask_cyclic', a list of N masks, exactly when
\* compute_cyclic_consistency is set; the objective received the same lists.
C14_OneEntryPerLevel ==
    wb.pc = "returned" =>
        /\ ~wb.is_list => wb.n = 1
        /\ HasKey(wb.output, COMPOSITION)
        /\ HasKey(wb.output, "mask_training")
        /\ Len(wb.output[COMPOSITION]) = wb.n
        /\ Len(wb.output["mask_training"]) = wb.n
        /\ \A i \in 1..wb.n : wb.output[COMPOSITION][i].level = i - 1
        /\ HasKey(wb.output, "mask_cyclic") <=> wb.cfg.compute_cyclic_consistency
        /\ HasKey(wb.output, "mask_cyclic") => Len(wb.output["mask_cyclic"]) = wb.n
        /\ wb.objective_args.est = wb.output[COMPOSITION]
        /\ wb.objective_args.mask = wb.output["mask_training"]

\* C14 witness: a returned call on a list of two levels with the cyclic masks
\* in the output.
C14_Witness ==
    /\ wb.pc = "returned"
    /\ wb.is_list
    /\ wb.n = 2
    /\ HasKey(wb.output, "mask_cyclic")
    /\ Len(wb.output["mask_cyclic"]) = 2
    /\ Len(wb.output[COMPOSITION]) = 2

\* the three terms of the training mask at the level just processed
CoverageTerm == wb.level.cov[1] * 5 >= wb.level.cov[2]

ValidMaskTerm == wb.level.mask_used[1] * 100 >= 98 * wb.level.mask_used[2]

CyclicTerm ==
    get_cyclic_consistency_mask(Vec(wb.level.a), Vec(wb.level.b), wb.flow_map,
                                wb.level.size, wb.cfg.alpha_1, wb.cfg.alpha_2)

\* C15: at every level the training mask is (warped ones >= 0.2) AND
\* (mask_used resized to the level >= 0.98, a term left out when mask_used is
\* None) AND (the cyclic mask, when compute_cyclic_consistency is set); a call
\* with mask_used=None goes through its levels and returns.
C15_TrainingMaskIsConjunction ==
    /\ (wb.pc = "levels" /\ wb.nbr > 0) =>
          /\ wb.masks[wb.nbr] <=>
                /\ CoverageTerm
                /\ wb.mask_used_given => ValidMaskTerm
                /\ wb.cfg.compute_cyclic_consistency => CyclicTerm
          /\ (wb.nbr = wb.n /\ ~wb.mask_used_given) => ENABLED WBReturn
    /\ wb.pc = "returned" => Len(wb.output["mask_training"]) = wb.n

\* C15 witness: the last level of a call with mask_used=None and the cyclic
\* check, at a pixel whose warped-ones value is exactly 0.2: the mask is set.
C15_Witness ==
    /\ wb.pc = "levels"
    /\ wb.nbr = wb.n
    /\ ~wb.mask_used_given
    /\ wb.cfg.compute_cyclic_consistency
    /\ wb.level.cov = <<1, 5>>
    /\ CyclicTerm
    /\ wb.masks[wb.nbr]

\* At the pixel of the level just processed, with s the synthetic flow at the
\* level and k the product of the denominators of its two channels:
\* k^2 * |a + b - s|^2 and k^2 * (|a|^2 + |b|^2 + |s|^2), as integers.
SynK ==
    LET sl == SyntheticAtLevel(wb.flow_map, wb.level.size) IN sl.u[2] * sl.v[2]

SynU ==
    LET sl == SyntheticAtLevel(wb.flow_map, wb.level.size) IN sl.u[1] * sl.v[2]

SynV ==
    LET sl == SyntheticAtLevel(wb.flow_map, wb.level.size) IN sl.v[1] * sl.u[2]

Sq(x) == x * x

CycleErrorSq ==
    Sq(SynK * (wb.level.a[1] + wb.level.b[1]) - SynU)
        + Sq(SynK * (wb.level.a[2] + wb.level.b[2]) - SynV)

MagnitudeSq ==
    Sq(SynK) * (Sq(wb.level.a[1]) + Sq(wb.level.a[2])
                  + Sq(wb.level.b[1]) + Sq(wb.level.b[2]))
        + Sq(SynU) + Sq(SynV)

\* both sides of |a + b - s|^2 > alpha_1 * (|a|^2 + |b|^2 + |s|^2) + alpha_2,
\* multiplied by k^2 and by the denominators of alpha_1 and alpha_2
CycleLeft == CycleErrorSq * wb.cfg.alpha_1[2] * wb.cfg.alpha_2[2]

CycleRight ==
    wb.cfg.alpha_1[1] * wb.cfg.alpha_2[2] * MagnitudeSq
        + wb.cfg.alpha_2[1] * wb.cfg.alpha_1[2] * Sq(SynK)

\* C16: the cyclic mask marks a pixel invalid exactly when
\* |a + b - s|^2 > alpha_1 * (|a|^2 + |b|^2 + |s|^2) + alpha_2, strictly: a
\* pixel where the two sides are equal is valid, and so is a pixel where the
\* three flows are zero (alpha_2 >= 0).
C16_InvalidStrictlyAboveThreshold ==
    (wb.pc = "levels" /\ wb.nbr > 0 /\ wb.cfg.compute_cyclic_consistency) =>
        /\ ~wb.mask_cyclic_list[wb.nbr] <=> CycleLeft > CycleRight
        /\ CycleLeft = CycleRight => wb.mask_cyclic_list[wb.nbr]
        /\ (MagnitudeSq = 0 /\ wb.cfg.alpha_2[1] >= 0) => wb.mask_cyclic_list[wb.nbr]

\* C16 witness: a pixel with non-zero flows where the cycle error equals the
\* threshold, and that is valid.
C16_Witness ==
    /\ wb.pc = "levels"
    /\ wb.nbr > 0
    /\ wb.cfg.compute_cyclic_consistency
    /\ CycleLeft = CycleRight
    /\ CycleErrorSq > 0
    /\ wb.mask_cyclic_list[wb.nbr]

\* At the level just processed, the gradient reaches the estimated flows only
\* through the added term and the warped source-to-target values, and the
\* copy given to warp does not require gradients.
NoGradientThroughGrid ==
    /\ ~wb.out.warping.requires_grad
    /\ "sampling_grid" \notin wb.out.grad.estimated_flow
    /\ wb.out.grad.estimated_flow = {"added_term", "warped_values"}

MasksFromDetached ==
    /\ wb.out.grad.coverage_mask = {}
    /\ wb.out.grad.mask_cyclic = {}

\* C17 as stated: at every level of every call the composed flow has no
\* gradient path through the sampling grid, and the rescaled copy, the
\* coverage mask and the cyclic mask are computed from detached values.
C17_NeverGradientThroughGrid ==
    (wb.pc = "levels" /\ wb.nbr > 0) => NoGradientThroughGrid /\ MasksFromDetached

\* C17 amended: this holds when detach_flow_for_warping is set (the default);
\* when it is not, the copy given to warp keeps its gradient and the composed
\* flow has a path through the sampling grid, while the coverage mask and the
\* cyclic mask are still computed from detached values.
C17_GradientThroughGridOnlyIfNotDetached ==
    (wb.pc = "levels" /\ wb.nbr > 0) =>
        /\ MasksFromDetached
        /\ IF wb.cfg.detach_flow_for_warping
           THEN NoGradientThroughGrid
           ELSE /\ wb.out.warping.requires_grad
                /\ wb.out.grad.estimated_flow =
                      {"added_term", "warped_values", "sampling_grid"}

\* C17 witness: a level processed with detach_flow_for_warping, on a level
\* whose size differs from flow_map's (the copy is rescaled).
C17_Witness ==
    /\ wb.pc = "levels"
    /\ wb.nbr > 0
    /\ wb.cfg.detach_flow_for_warping
    /\ wb.level.size # Pair(wb.flow_map.h, wb.flow_map.w)
    /\ NoGradientThroughGrid
    /\ MasksFromDetached

\* C18: along a call the fields of the WBipathLoss object and the inputs keep
\* their values: flow_map and mask_used stay as given, every estimate of the
\* list is the same after its level as before (the rescaling is done on a
\* copy), and what a level yields is determined by the object's fields and
\* the inputs alone, so that a second call on the same inputs returns the same.
C18_CallLeavesInputsAndObject ==
    [][ /\ wb'.cfg = wb.cfg
        /\ (wb.pc = "levels" /\ wb'.pc = "levels") =>
              /\ wb'.flow_map = wb.flow_map
              /\ wb'.mask_used_given = wb.mask_used_given
              /\ wb'.out.input_after = Vec(wb'.level.a)
              /\ wb'.out = LevelOutputs(wb.cfg, wb.flow_map, wb.mask_used_given,
                                        wb'.level)
        /\ (wb.pc = "levels" /\ wb'.pc = "returned") =>
              wb'.output = WBOutput(wb) ]_vars

\* C18 witness: a level whose rescaled copy differs from the estimate, the
\* estimate being as it was given.
C18_Witness ==
    /\ wb.pc = "levels"
    /\ wb.nbr > 0
    /\ wb.out.warping.storage = "new"
    /\ wb.out.input_after = Vec(wb.level.a)
    /\ wb.out.warping.u[1] # wb.level.a[1] * wb.out.warping.u[2]

(***************************************************************************)
(* Claims about sparse_max_pool (SpecPool).                                *)
(***************************************************************************)
PositivesIn(o) ==
    { pool.input.val[c] : c \in WindowCells(o, pool.input.h, pool.input.w, pool.size) }
        \cap { v \in PoolValues : v > 0 }

NegativesIn(o) ==
    { pool.input.val[c] : c \in WindowCells(o, pool.input.h, pool.input.w, pool.size) }
        \cap { v \in PoolValues : v < 0 }

NonZeroIn(o) ==
    { c \in WindowCells(o, pool.input.h, pool.input.w, pool.size) : pool.input.val[c] # 0 }

\* the 4x4 map with +5 at (0, 0) and -3 at (3, 3)
ExampleMap == SparseMap(4, 4, (<<0, 0>> :> 5) @@ (<<3, 3>> :> -3))

\* C13: every cell of the result of sparse_max_pool is the maximum of the
\* positive values of its window (0 if none) plus the minimum of the negative
\* values of its window (0 if none); a window with one non-zero value yields
\* that value; the 4x4 example pooled to 2x2 gives [[5, 0], [0, -3]].
C13_MaxOfPositivesPlusMinOfNegatives ==
    pool.pc = "returned" =>
        /\ pool.output.h = pool.size[0] /\ pool.output.w = pool.size[1]
        /\ \A o \in Cells(pool.size[0], pool.size[1]) :
              /\ pool.output.val[o] =
                    (IF PositivesIn(o) = {} THEN 0 ELSE SetMax(PositivesIn(o)))
                  + (IF NegativesIn(o) = {} THEN 0 ELSE SetMin(NegativesIn(o)))
              /\ \A c \in NonZeroIn(o) :
                    NonZeroIn(o) = {c} => pool.output.val[o] = pool.input.val[c]
        /\ (pool.input = ExampleMap /\ pool.size = Pair(2, 2)) =>
              pool.output.val = (<<0, 0>> :> 5) @@ (<<0, 1>> :> 0)
                                  @@ (<<1, 0>> :> 0) @@ (<<1, 1>> :> -3)

\* C13 witness: the example of the claim has been pooled.
C13_Witness ==
    /\ pool.pc = "returned"
    /\ pool.input = ExampleMap
    /\ pool.size = Pair(2, 2)
    /\ pool.output.val[<<0, 0>>] = 5
    /\ pool.output.val[<<1, 1>>] = -3

(***************************************************************************)
(* Claims about PWCNetModel (SpecPWC).                                     *)
(***************************************************************************)
\* the size the documentation gives to the returned flow
DocumentedSize ==
    IF pwc.output_shape # OptNone THEN pwc.output_shape.q
    ELSE IF pwc.scaling # <<1, 1>>
    THEN Pair(ScaledSide(pwc.h, pwc.scaling), ScaledSide(pwc.w, pwc.scaling))
    ELSE Pair(pwc.h, pwc.w)

\* C23: the flow returned by estimate_flow and by
\* estimate_flow_and_confidence_map has the spatial size output_shape when it
\* is given, int(target size * scaling) when only scaling != 1.0 is given, and
\* the size of the target image otherwise.
C23_ReturnedFlowHasDocumentedSize ==
    pwc.pc = "returned" => Pair(pwc.flow_est.h, pwc.flow_est.w) = DocumentedSize



(***************************************************************************)
(* Claims about BatchedImageTripletCreation2Flows (SpecTwoFlows)           *)
(***************************************************************************)
\* The fields of the self-supervised triplet, under the names without suffix.
SelfSupervisedFields ==
    [k \in {"target_image_prime", "flow_map", "correspondence_mask"}
           \cup (IF tf.cfg.compute_mask_zero_borders THEN {"mask_zero_borders"} ELSE {}) |->
        tf.mini_batch[k \o "_ss"]]

\* The fields of the unsupervised triplet.
UnsupervisedFields ==
    [k \in DOMAIN SelfSupervisedFields |-> tf.mini_batch[k]]

\* What the single-flow constructor writes for the generator output, the
\* images and the border mask of the self-supervised branch.
SingleFlowFields ==
    SingleFlowBatch(tf.cfg, tf.h, tf.w, tf.has_flow_map, tf.gen_ss, tf.b, tf.sum_ss)

\* Two fields are the same tensor; for the mask of zero borders, the mask of
\* the non-zero pixels of target_image_prime is one mask, whether
\* define_mask_zero_borders or the expression of lines 249-252 computes it.
SameField(k, x, y) ==
    IF k = "mask_zero_borders"
    THEN /\ SizeOf(x) = SizeOf(y)
         /\ (x.src = "mask_gt") <=> (y.src = "mask_gt")
    ELSE x = y

\* C24: for the same generator output and configuration the '_ss' fields of
\* the mini-batch returned by BatchedImageTripletCreation2Flows equal the
\* fields BatchedImageTripletCreation would write, and when both generators
\* return the same flow the two triplets of the call are equal.
C24_SelfSupervisedBranchAsSingleFlow ==
    tf.pc = "returned" =>
        /\ \A k \in DOMAIN SelfSupervisedFields :
               /\ HasKey(SingleFlowFields, k)
               /\ SameField(k, SelfSupervisedFields[k], SingleFlowFields[k])
        /\ (tf.gen_un = tf.gen_ss /\ tf.sum_un = tf.sum_ss) =>
               UnsupervisedFields = SelfSupervisedFields

(***************************************************************************)
(* Claims about GLOCALNetWarpCUnsupervisedBatchPreprocessing (SpecBatch)   *)
(***************************************************************************)
\* C25: the flow that batch processing writes back to the mini-batch has
\* layout (B, 2, H, W) -- a 'flow_map' given with another second dimension is
\* converted, or the call raises before writing it -- and the mask written
\* with it has the flow's (H, W), whatever resolution it had.
C25_StoredFlowIsChannelFirst ==
    bproc.pc = "returned" =>
        /\ bproc.mini_batch.flow_map[2] = 2
        /\ bproc.mini_batch.mask =
               <<bproc.mini_batch.flow_map[1], bproc.mini_batch.flow_map[3],
                 bproc.mini_batch.flow_map[4]>>

\* C26: when there is a triplet creator, it and its flow generator are
\* invoked with the training flag the step was called with.
C26_TrainingFlagReachesGenerator ==
    (bproc.pc = "returned" /\ bproc.creator # "None") =>
        /\ bproc.call.creator_training = bproc.training
        /\ bproc.call.generator_training = bproc.training

\* C27: with mask_strategy None, apply_mask False and apply_mask_zero_borders
\* False the call completes without error (and leaves mini_batch['mask'] None).
C27_NoMaskConfiguredCompletes ==
    (/\ bproc.pc \in {"returned", "raised"}
     /\ bproc.cfg.mask_strategy = "none"
     /\ ~bproc.cfg.apply_mask
     /\ ~bproc.cfg.apply_mask_zero_borders) =>
        bproc.pc = "returned"

(***************************************************************************)
(* Claims about a whole call of EPE / L1 / L1Charbonnier (SpecWholeLoss)   *)
(***************************************************************************)
\* The call just returned, made again with another mask and another
\* valid_transformation_bool.
SameCallWith(mask_kind, vtb) ==
    LossValue(lc.cfg, mask_kind, vtb, lc.b, lc.h, lc.w, lc.diffs)

\* C28: for EPE, L1 and L1Charbonnier and both values of sum_normalized, a
\* call takes the masked per-sample normalisation path and returns a scalar;
\* what it returns is the same for every valid_transformation_bool; and a call
\* with mask=None returns what the call with an all-true mask returns.
C28_MaskNoneIsAllTrueMask ==
    lc.pc = "returned" =>
        /\ lc.result.path = "masked"
        /\ lc.result.scalar
        /\ \A vtb \in ValidTransformationBools(lc.b) :
               lc.result = SameCallWith(lc.mask_kind, vtb)
        /\ lc.mask_kind = "None" =>
               lc.result = SameCallWith("all_true", lc.vtb)

\* C28 witness: a call with mask=None on an object whose
\* valid_transformation_bool is set, with sum_normalized False, returned; a NaN
\* pixel was filtered out of a sample.
C28_Witness ==
    /\ lc.pc = "returned"
    /\ lc.mask_kind = "None"
    /\ ~lc.vtb.none
    /\ ~lc.cfg.sum_normalized
    /\ lc.result.path = "masked"
    /\ \E i \in 1..lc.b : lc.result.norms[i].n = 1 /\ lc.h * lc.w = 2
====
